---- MODULE Spec2Model ----
(***************************************************************************)
(* Model of bottleneck (josephgoksu/bottleneck), a CLI that fetches the    *)
(* merged and open pull requests of one repository and prints velocity     *)
(* analytics.  The model follows the extended program (fetchPRs, hero,     *)
(* stale and ghost detectors); the analysis functions it shares with       *)
(* src/main.go are identical there.                                        *)
(*                                                                         *)
(* Time.  time.Time values are whole seconds counted from                  *)
(* 2023-11-01T00:00:00Z and time.Duration values are whole seconds.  Go    *)
(* counts nanoseconds; every timestamp the model draws is a whole hour and *)
(* every group the model averages has at most six members, so each         *)
(* integer quotient the program computes is exact in both units and the    *)
(* comparisons between quotients agree.  The exceptions are the means of   *)
(* the longer samples of SpecLongTail and SpecMedian (general statistics,  *)
(* monthly trends), which are Go's means cut to whole seconds, and the     *)
(* samples of SpecCorrelation, whose durations are whole seconds that are  *)
(* not whole hours: there Duration.Hours() and the Pearson sums are        *)
(* computed in float64, bit for bit (53-bit significand, round to nearest  *)
(* even, NaN).                                                             *)
(*                                                                         *)
(* Fetching.  Under Spec one fetchPRs call is one step that returns a list *)
(* or an error; SpecFetch follows the pagination loop request by request.  *)
(***************************************************************************)
EXTENDS Integers, Sequences, FiniteSets, TLC

VARIABLES
    pc,              \* position of main
    excludeOutliers, \* the --exclude-outliers flag
    fetchedMerged,   \* the merged list as fetchPRs returned it (history)
    mergedArr,       \* backing array of the slice main holds in mergedPRs
    mergedPRs,       \* slice header [off, len] over mergedArr
    openPRs,         \* the open list
    out,             \* what has been printed, one record per report
    fetch            \* the locals of a running fetchPRs call, when one is followed

vars == <<pc, excludeOutliers, fetchedMerged, mergedArr, mergedPRs, openPRs, out, fetch>>

-----------------------------------------------------------------------------
(* Bounds of the model *)

\* most merged records one fetch returns under Spec (the --limit flag)
MaxMerged == 4
\* most open records one fetch returns under Spec
MaxOpen == 2
\* longest merged sample drawn for the outlier filter alone (SpecFilter)
MaxFilterN == 41
\* most reviews one reviewer has in the samples of SpecHero
MaxHeroCount == 5
\* longest merged sample of SpecTrends
MaxTrendPRs == 3
\* longest merged sample of SpecHotspots
MaxHotPRs == 3
\* longest merged sample of SpecHotRank
MaxRankPRs == 3
\* longest merged sample of SpecForecast
MaxForecastPRs == 4
\* longest merged sample of SpecHistogram
MaxHistPRs == 3
\* longest open list of SpecOpen
MaxOpenListed == 3
\* longest merged sample of SpecReview
MaxReviewPRs == 3
\* longest merged sample of SpecMedian
MaxMedianN == 20
\* longest merged sample of SpecSize
MaxSizePRs == 4
\* longest merged sample of SpecCorrelation
MaxCorrPRs == 3
\* largest --limit of SpecFetch
MaxLimit == 102
\* longest merged sample of SpecLongTail
MaxTailN == 100

-----------------------------------------------------------------------------
(* Arithmetic and sequence helpers *)

Max(a, b) == IF a >= b THEN a ELSE b

Min(a, b) == IF a <= b THEN a ELSE b

\* Go's integer division truncates toward zero
GoDiv(a, b) == IF a >= 0 THEN a \div b ELSE -((-a) \div b)

Range(s) == {s[i] : i \in DOMAIN s}

RECURSIVE SumSeq(_)
SumSeq(s) == IF s = <<>> THEN 0 ELSE s[1] + SumSeq(Tail(s))

Front(s) == SubSeq(s, 1, Len(s) - 1)

Last(s) == s[Len(s)]

RECURSIVE Reverse(_)
Reverse(s) == IF s = <<>> THEN <<>> ELSE Append(Reverse(Tail(s)), s[1])

\* sort.Slice on a slice of at most 12 elements is insertionSortLessFunc:
\* each element moves left while less(it, its left neighbour)
InsertionSort(s, less(_, _)) ==
    LET RECURSIVE ins(_, _)
        ins(sorted, x) ==
            IF sorted = <<>> \/ ~less(x, Last(sorted))
            THEN Append(sorted, x)
            ELSE Append(ins(Front(sorted), x), Last(sorted))
        RECURSIVE upto(_)
        upto(i) == IF i = 0 THEN <<>> ELSE ins(upto(i - 1), s[i])
    IN upto(Len(s))

\* sort.Slice on a longer slice is pdqsort, which promises only a sorted
\* result: s in ascending order of key (key[i] is the key of s[i]), equal keys
\* in their order in s, or in the opposite order when tiesReversed
pdqOrder(s, key, tiesReversed) ==
    LET n == Len(s)
        keys == SubSeq(key, 1, n)
        rank == SubSeq([i \in 1..n |->
                          Cardinality({j \in 1..n : keys[j] < keys[i]})
                          + Cardinality({j \in 1..n : keys[j] = keys[i] /\
                                             (IF tiesReversed THEN j > i ELSE j < i)})
                          + 1], 1, n)
    IN [k \in 1..n |-> s[CHOOSE i \in 1..n : rank[i] = k]]

\* a Go slice expression arr[off : off+len]
Slice(arr, hdr) == SubSeq(arr, hdr.off + 1, hdr.off + hdr.len)

WholeSlice(arr) == [off |-> 0, len |-> Len(arr)]

-----------------------------------------------------------------------------
(* Time *)

Hour == 3600

Day == 24 * Hour

\* pr.MergedAt.Sub(pr.CreatedAt)
Duration(pr) == pr.MergedAt - pr.CreatedAt

-----------------------------------------------------------------------------
(* Pull requests *)

\* *time.Time: the empty sequence is nil, <<t>> points at t
NilTime == <<>>

\* the body of fetchPRs' loop over resp nodes: one GraphQL node to a PullRequest
RECURSIVE collectReviewers(_, _, _)
collectReviewers(reviews, author, seen) ==
    IF reviews = <<>> THEN <<>>
    ELSE LET login == reviews[1].Author IN
         IF login # "" /\ login # author /\ login \notin seen
         THEN <<login>> \o collectReviewers(Tail(reviews), author, seen \cup {login})
         ELSE collectReviewers(Tail(reviews), author, seen)

RECURSIVE collectRequested(_)
collectRequested(reqs) ==
    IF reqs = <<>> THEN <<>>
    ELSE IF reqs[1] # "" THEN <<reqs[1]>> \o collectRequested(Tail(reqs))
         ELSE collectRequested(Tail(reqs))

toPullRequest(node) ==
    [Number        |-> node.Number,
     CreatedAt     |-> node.CreatedAt,
     UpdatedAt     |-> node.UpdatedAt,
     MergedAt      |-> node.MergedAt,
     FirstReviewAt |-> IF Len(node.Reviews) > 0 THEN <<node.Reviews[1].CreatedAt>> ELSE NilTime,
     Author        |-> node.Author,
     Size          |-> node.Additions + node.Deletions,
     FilePaths     |-> node.Files,
     Reviewers     |-> collectReviewers(node.Reviews, node.Author, {}),
     Requested     |-> collectRequested(node.ReviewRequests)]

-----------------------------------------------------------------------------
(* filterOutliers *)

\* outlierCut without `if cut == 0 { cut = 1 }`
outlierCut_unforced(n) == (n * 5) \div 100

\* cut := int(float64(len(prs)) * 0.05); if cut == 0 { cut = 1 }
\* (the float64 product truncates to floor(n/20) for every n up to 200000)
outlierCut(n) ==
    LET cut == (n * 5) \div 100 IN IF cut = 0 THEN 1 ELSE cut

\* sort.Slice(prs, duration ascending).  Up to 12 elements it is the stable
\* insertion sort; above that pdqsort leaves the order of equal durations
\* unspecified, modelled by the two extreme tie orders.
sortByDuration(prs) ==
    LET asc(a, b) == Duration(a) < Duration(b)
        stable == InsertionSort(prs, asc)
        key == [i \in DOMAIN prs |-> Duration(prs[i])]
    IN IF Len(prs) <= 12 THEN {stable}
       ELSE {pdqOrder(prs, key, FALSE), pdqOrder(prs, key, TRUE)}

\* filterOutliersWith trimming every sample of two or more records
filterOutliersWith_from2(prs, sorted) ==
    IF Len(prs) < 2
    THEN [arr |-> prs, hdr |-> WholeSlice(prs)]
    ELSE LET cut == IF (Len(prs) * 5) \div 100 = 0 THEN 1 ELSE (Len(prs) * 5) \div 100
         IN [arr |-> sorted, hdr |-> [off |-> cut, len |-> Len(prs) - 2 * cut]]

\* filterOutliersWith with the guard len(prs) < 3
filterOutliersWith_from3(prs, sorted) ==
    IF Len(prs) < 3
    THEN [arr |-> prs, hdr |-> WholeSlice(prs)]
    ELSE [arr |-> sorted, hdr |-> [off |-> outlierCut(Len(prs)),
                                   len |-> Len(prs) - 2 * outlierCut(Len(prs))]]

\* the result of filterOutliers(prs) when its sort leaves the array as `sorted`:
\* the backing array afterwards and the slice header returned
filterOutliersWith(prs, sorted) ==
    IF Len(prs) < 4
    THEN [arr |-> prs, hdr |-> WholeSlice(prs)]
    ELSE LET cut == outlierCut(Len(prs))
         IN [arr |-> sorted, hdr |-> [off |-> cut, len |-> Len(prs) - 2 * cut]]

filterOutliers(prs) == {filterOutliersWith(prs, s) : s \in sortByDuration(prs)}

-----------------------------------------------------------------------------
(* Reports.  Every print function appends one record to out; comp names   *)
(* the report.  Durations are recorded as the values handed to            *)
(* humanizeDuration.                                                      *)

\* a run-time panic inside fn (integer divide by zero, index out of range)
Panic(fn) == [comp |-> "panic", in |-> fn]

IsPanic(r) == r.comp = "panic"

Has(c) == \E i \in DOMAIN out : out[i].comp = c

Get(c) == out[CHOOSE i \in DOMAIN out : out[i].comp = c]

-----------------------------------------------------------------------------
(* printGeneralStats *)

\* the durations slice after the loop, in input order
durationsOf(prs) == [i \in DOMAIN prs |-> Duration(prs[i])]

\* sort.Slice(durations, ascending)
sortDurations(ds) ==
    IF Len(ds) <= 12 THEN InsertionSort(ds, LAMBDA a, b : a < b)
    ELSE pdqOrder(ds, ds, FALSE)

\* medianOf taking durations[mid] for every length
medianOf_upperMiddle(durations) == durations[(Len(durations) \div 2) + 1]

medianOf(durations) ==
    LET mid == Len(durations) \div 2 IN
    IF Len(durations) % 2 = 0
    THEN GoDiv(durations[mid] + durations[mid + 1], 2)
    ELSE durations[mid + 1]

printGeneralStats(prs) ==
    LET durations == sortDurations(durationsOf(prs))
        totalDuration == SumSeq(durationsOf(prs))
    IN IF Len(prs) = 0
       THEN Panic("printGeneralStats")
       ELSE [comp    |-> "general",
             Count   |-> Len(prs),
             Average |-> GoDiv(totalDuration, Len(prs)),
             Median  |-> medianOf(durations),
             Min     |-> durations[1],
             Max     |-> durations[Len(durations)]]

-----------------------------------------------------------------------------
(* printReviewStats *)

\* reviewPhases without the two `if ... < 0` clamps
reviewPhases_unclamped(pr) ==
    [wait |-> pr.FirstReviewAt[1] - pr.CreatedAt,
     review |-> pr.MergedAt - pr.FirstReviewAt[1]]

\* one record's clamped (wait, review) pair; FirstReviewAt is not nil
reviewPhases(pr) ==
    LET wait == pr.FirstReviewAt[1] - pr.CreatedAt
        review == pr.MergedAt - pr.FirstReviewAt[1]
    IN [wait |-> IF wait < 0 THEN 0 ELSE wait,
        review |-> IF review < 0 THEN 0 ELSE review]

printReviewStats(prs) ==
    LET reviewed == SelectSeq(prs, LAMBDA pr : pr.FirstReviewAt # NilTime)
        totalWait == SumSeq([i \in DOMAIN reviewed |-> reviewPhases(reviewed[i]).wait])
        totalReview == SumSeq([i \in DOMAIN reviewed |-> reviewPhases(reviewed[i]).review])
        countWait == Len(reviewed)
    IN IF countWait = 0
       THEN [comp |-> "review", NoReviews |-> TRUE, Count |-> 0, AvgWait |-> 0, AvgReview |-> 0]
       ELSE [comp |-> "review", NoReviews |-> FALSE, Count |-> countWait,
             AvgWait |-> GoDiv(totalWait, countWait),
             AvgReview |-> GoDiv(totalReview, countWait)]

-----------------------------------------------------------------------------
(* Ranking.  A ranked list is built by ranging over a Go map (random      *)
(* order) and sort.Slice by a metric descending; the insertion sort keeps *)
(* equal metrics in the map's order, so every order that is descending in *)
(* the metric can come out.                                               *)

\* every sequence of the keys of m in non-increasing order of m
RECURSIVE rankOrders(_, _)
rankOrders(keys, m) ==
    IF keys = {} THEN {<<>>}
    ELSE LET top == {k \in keys : \A j \in keys : m[k] >= m[j]}
         IN UNION {{<<k>> \o r : r \in rankOrders(keys \ {k}, m)} : k \in top}

\* the loop without `if i >= 5 { break }`
firstFive_noBreak(s) == s

\* the loop `for i, x := range xs { if i >= 5 { break } ... }`
firstFive(s) == SubSeq(s, 1, Min(Len(s), 5))

-----------------------------------------------------------------------------
(* float64.  A float64 is [nan, neg, man, exp] standing for                *)
(* (-1)^neg * man * 2^exp, man a natural number held as its base-2^15      *)
(* digits, least significant first, odd unless the value is 0.  Results    *)
(* are rounded to the 53-bit significand, to nearest with ties to even.    *)
(* The exponents of the program's values stay far inside the float64       *)
(* range, so overflow, underflow and infinities are left out; the sign of  *)
(* zero is left out too (the program only tests a zero with != 0).         *)
(* The operations are functions, so that each argument is evaluated once.  *)

Limb == 2^15

\* natural numbers as digit sequences
Big == Seq(Nat)

Float == [nan : BOOLEAN, neg : BOOLEAN, man : Big, exp : Int]

Tail0(a) == IF a = <<>> THEN <<>> ELSE Tail(a)

zeros[n \in Nat] == IF n = 0 THEN <<>> ELSE <<0>> \o zeros[n - 1]

bigNorm[a \in Big] ==
    IF a = <<>> THEN a
    ELSE IF a[Len(a)] = 0 THEN bigNorm[SubSeq(a, 1, Len(a) - 1)] ELSE a

bigOf[n \in Nat] == IF n = 0 THEN <<>> ELSE <<n % Limb>> \o bigOf[n \div Limb]

addLimbs[a \in Big, b \in Big, carry \in Nat] ==
    IF a = <<>> /\ b = <<>>
    THEN IF carry = 0 THEN <<>> ELSE <<carry>>
    ELSE LET t == (IF a = <<>> THEN 0 ELSE a[1]) + (IF b = <<>> THEN 0 ELSE b[1]) + carry
         IN <<t % Limb>> \o addLimbs[Tail0(a), Tail0(b), t \div Limb]

bigAdd[a \in Big, b \in Big] == addLimbs[a, b, 0]

subLimbs[a \in Big, b \in Big, borrow \in Nat] ==
    IF a = <<>> THEN <<>>
    ELSE LET t == a[1] - (IF b = <<>> THEN 0 ELSE b[1]) - borrow
         IN IF t < 0 THEN <<t + Limb>> \o subLimbs[Tail(a), Tail0(b), 1]
                     ELSE <<t>> \o subLimbs[Tail(a), Tail0(b), 0]

\* a - b for a >= b
bigSub[a \in Big, b \in Big] == bigNorm[subLimbs[a, b, 0]]

cmpFrom[a \in Big, b \in Big, i \in Nat] ==
    IF i = 0 THEN 0
    ELSE IF a[i] < b[i] THEN -1
    ELSE IF a[i] > b[i] THEN 1
    ELSE cmpFrom[a, b, i - 1]

\* -1, 0 or 1 as a < b, a = b or a > b
bigCmp[a \in Big, b \in Big] ==
    IF Len(a) < Len(b) THEN -1
    ELSE IF Len(a) > Len(b) THEN 1
    ELSE cmpFrom[a, b, Len(a)]

mulLimbs[a \in Big, k \in Nat, carry \in Nat] ==
    IF a = <<>>
    THEN IF carry = 0 THEN <<>> ELSE <<carry>>
    ELSE LET t == a[1] * k + carry
         IN <<t % Limb>> \o mulLimbs[Tail(a), k, t \div Limb]

bigMul[a \in Big, b \in Big] ==
    IF a = <<>> \/ b = <<>> THEN <<>>
    ELSE bigNorm[bigAdd[mulLimbs[a, b[1], 0], <<0>> \o bigMul[a, Tail(b)]]]

divFrom[a \in Big, d \in Nat, i \in Nat, r \in Nat] ==
    IF i = 0 THEN <<>>
    ELSE LET t == r * Limb + a[i]
         IN divFrom[a, d, i - 1, t % d] \o <<t \div d>>

bitsOf[n \in Nat] == IF n = 0 THEN 0 ELSE 1 + bitsOf[n \div 2]

\* the number of binary digits of a
bitLen(a) == IF a = <<>> THEN 0 ELSE 15 * (Len(a) - 1) + bitsOf[a[Len(a)]]

pow2[k \in Nat] == zeros[k \div 15] \o <<2^(k % 15)>>

\* a * 2^k
bigShl[a \in Big, k \in Nat] ==
    IF a = <<>> THEN <<>> ELSE zeros[k \div 15] \o mulLimbs[a, 2^(k % 15), 0]

\* a \div 2^k
bigShr[a \in Big, k \in Nat] ==
    IF Len(a) <= k \div 15 THEN <<>>
    ELSE bigNorm[divFrom[SubSeq(a, (k \div 15) + 1, Len(a)), 2^(k % 15),
                         Len(a) - (k \div 15), 0]]

\* a % 2^k
bigLow[a \in Big, k \in Nat] ==
    IF Len(a) <= k \div 15 THEN a
    ELSE bigNorm[SubSeq(a, 1, k \div 15) \o <<a[(k \div 15) + 1] % (2^(k % 15))>>]

\* the number of zero binary digits at the low end of a # 0
trailingZeros[a \in Big] ==
    IF a[1] = 0 THEN 15 + trailingZeros[Tail(a)]
    ELSE IF a[1] % 2 = 0 THEN 1 + trailingZeros[<<a[1] \div 2>>]
    ELSE 0

\* long division by d: st is the quotient and remainder so far, the binary
\* digits b..0 of limb are brought down one at a time
divBits[st \in [q : Big, r : Big], limb \in Nat, d \in Big, b \in Int] ==
    IF b < 0 THEN st
    ELSE LET r2 == bigAdd[bigAdd[st.r, st.r], bigOf[(limb \div (2^b)) % 2]]
             q2 == bigAdd[st.q, st.q]
         IN IF bigCmp[r2, d] >= 0
            THEN divBits[[q |-> bigAdd[q2, <<1>>], r |-> bigSub[r2, d]], limb, d, b - 1]
            ELSE divBits[[q |-> q2, r |-> r2], limb, d, b - 1]

\* quotient and remainder of the digits j.. of n by d
divLimbs[n \in Big, d \in Big, j \in Nat] ==
    IF j > Len(n) THEN [q |-> <<>>, r |-> <<>>]
    ELSE divBits[divLimbs[n, d, j + 1], n[j], d, 14]

bigDivMod[n \in Big, d \in Big] == divLimbs[n, d, 1]

\* the binary digits i..stop of the integer square root of n, q holding the
\* digits above i
sqrtBits[n \in Big, q \in Big, i \in Int, stop \in Nat] ==
    IF i < stop THEN q
    ELSE IF bigCmp[bigMul[bigAdd[q, pow2[i]], bigAdd[q, pow2[i]]], n] <= 0
    THEN sqrtBits[n, bigAdd[q, pow2[i]], i - 1, stop]
    ELSE sqrtBits[n, q, i - 1, stop]

\* the digits 8k.. of the integer square root of n
sqrtFrom[n \in Big, k \in Nat] ==
    IF 8 * k > bitLen(n) \div 2 THEN <<>>
    ELSE sqrtBits[n, sqrtFrom[n, k + 1], 8 * k + 7, 8 * k]

bigSqrt[n \in Big] == sqrtFrom[n, 0]

fZero == [nan |-> FALSE, neg |-> FALSE, man |-> <<>>, exp |-> 0]

fNaN == [nan |-> TRUE, neg |-> FALSE, man |-> <<>>, exp |-> 0]

\* the float64 that is exactly (-1)^neg * m * 2^e, bitLen(m) <= 53
fExact[neg \in BOOLEAN, m \in Big, e \in Int] ==
    IF m = <<>> THEN fZero
    ELSE [nan |-> FALSE, neg |-> neg, man |-> bigShr[m, trailingZeros[m]],
          exp |-> e + trailingZeros[m]]

\* the float64 nearest to (-1)^neg * m * 2^e, ties to the even significand
fRound[neg \in BOOLEAN, m \in Big, e \in Int] ==
    IF bitLen(m) <= 53 THEN fExact[neg, m, e]
    ELSE LET k == bitLen(m) - 53
             q == bigShr[m, k]
             c == bigCmp[bigLow[m, k], pow2[k - 1]]
         IN IF c = 1 \/ (c = 0 /\ q[1] % 2 = 1)
            THEN fExact[neg, bigAdd[q, <<1>>], e + k]
            ELSE fExact[neg, q, e + k]

\* the float64 nearest to a value strictly between q and q + 1 (inexact) or
\* equal to q, times 2^e; q has more than 54 binary digits
fRoundInexact[neg \in BOOLEAN, q \in Big, inexact \in BOOLEAN, e \in Int] ==
    fRound[neg, bigAdd[bigAdd[q, q], IF inexact THEN <<1>> ELSE <<>>], e - 1]

\* float64(n) of an integer below 2^31
float64[n \in Int] == fExact[n < 0, bigOf[IF n < 0 THEN -n ELSE n], 0]

\* a + b
fAdd[a \in Float, b \in Float] ==
    IF a.nan \/ b.nan THEN fNaN
    ELSE IF a.man = <<>> THEN b
    ELSE IF b.man = <<>> THEN a
    ELSE LET e == Min(a.exp, b.exp)
             ma == bigShl[a.man, a.exp - e]
             mb == bigShl[b.man, b.exp - e]
             c == bigCmp[ma, mb]
         IN IF a.neg = b.neg THEN fRound[a.neg, bigAdd[ma, mb], e]
            ELSE IF c = 0 THEN fZero
            ELSE IF c = 1 THEN fRound[a.neg, bigSub[ma, mb], e]
            ELSE fRound[b.neg, bigSub[mb, ma], e]

\* a - b
fSub[a \in Float, b \in Float] == fAdd[a, [b EXCEPT !.neg = (b.man # <<>> /\ ~b.neg)]]

\* a * b
fMul[a \in Float, b \in Float] ==
    IF a.nan \/ b.nan THEN fNaN
    ELSE fRound[a.neg # b.neg, bigMul[a.man, b.man], a.exp + b.exp]

quotientOf[neg \in BOOLEAN, d \in [q : Big, r : Big], e \in Int] ==
    fRoundInexact[neg, d.q, d.r # <<>>, e]

\* a / b for b # 0
fDiv[a \in Float, b \in Float] ==
    IF a.nan \/ b.nan THEN fNaN
    ELSE IF a.man = <<>> THEN fZero
    ELSE LET s == Max(0, 55 + bitLen(b.man) - bitLen(a.man))
         IN quotientOf[a.neg # b.neg, bigDivMod[bigShl[a.man, s], b.man],
                       a.exp - b.exp - s]

rootOfBig[n \in Big, q \in Big, e \in Int] == fRoundInexact[FALSE, q, bigMul[q, q] # n, e]

\* the square root of n * 2^e for even e
sqrtOfBig[n \in Big, e \in Int] == rootOfBig[n, bigSqrt[n], e \div 2]

\* math.Sqrt(a): NaN for a < 0
mathSqrt[a \in Float] ==
    IF a.nan THEN fNaN
    ELSE IF a.man = <<>> THEN fZero
    ELSE IF a.neg THEN fNaN
    ELSE LET s0 == Max(0, 110 - bitLen(a.man))
             s == IF (a.exp - s0) % 2 = 0 THEN s0 ELSE s0 + 1
         IN sqrtOfBig[bigShl[a.man, s], a.exp - s]

\* a > b; false when either is NaN
fGreater[a \in Float, b \in Float] ==
    ~fSub[a, b].nan /\ fSub[a, b].man # <<>> /\ ~fSub[a, b].neg

\* Duration.Hours() of a duration of d whole seconds:
\* float64(d / Hour) + float64(d % Hour) / (60 * 60 * 1e9), in nanoseconds
Hours[d \in Int] ==
    LET hour == GoDiv(d, Hour)
        sec == d - hour * Hour
    IN fAdd[float64[hour],
            fDiv[fExact[sec < 0, bigMul[bigOf[IF sec < 0 THEN -sec ELSE sec],
                                        bigOf[1000000000]], 0],
                 fExact[FALSE, bigMul[bigOf[3600], bigOf[1000000000]], 0]]]

-----------------------------------------------------------------------------
(* printSizeAnalysis *)

\* pr.MergedAt.Sub(pr.CreatedAt).Hours(), exact for whole-hour durations
durationHours(pr) == GoDiv(Duration(pr), Hour)

\* correlationVerdict with r >= 0.5 and r >= 0.3
correlationVerdict_inclusive(numerator, denomSq) ==
    IF denomSq # 0 /\ numerator > 0 /\ 4 * numerator * numerator >= denomSq
    THEN "strong"
    ELSE IF denomSq # 0 /\ numerator > 0 /\ 100 * numerator * numerator >= 9 * denomSq
    THEN "moderate"
    ELSE "weak"

\* the verdict for r = numerator / sqrt(denomSq): r > 0.5, r > 0.3, else
correlationVerdict(numerator, denomSq) ==
    IF denomSq # 0 /\ numerator > 0 /\ 4 * numerator * numerator > denomSq
    THEN "strong"
    ELSE IF denomSq # 0 /\ numerator > 0 /\ 100 * numerator * numerator > 9 * denomSq
    THEN "moderate"
    ELSE "weak"

Sums == [X : Float, Y : Float, XY : Float, X2 : Float, Y2 : Float]

\* one pass of the loop body: the five sums after a record of this size and duration
sumsAfter[s \in Sums, size \in Float, duration \in Float] ==
    [X |-> fAdd[s.X, size], Y |-> fAdd[s.Y, duration],
     XY |-> fAdd[s.XY, fMul[size, duration]],
     X2 |-> fAdd[s.X2, fMul[size, size]],
     Y2 |-> fAdd[s.Y2, fMul[duration, duration]]]

\* sumX, sumY, sumXY, sumX2 and sumY2 after the first k records of prs
RECURSIVE floatSums(_, _)
floatSums(prs, k) ==
    IF k = 0 THEN [X |-> fZero, Y |-> fZero, XY |-> fZero, X2 |-> fZero, Y2 |-> fZero]
    ELSE sumsAfter[floatSums(prs, k - 1), float64[prs[k].Size], Hours[Duration(prs[k])]]

\* correlation := 0.0; if denominator != 0 { correlation = numerator / denominator }
\* (denominator != 0 is true of NaN)
correlationOf[numerator \in Float, denominator \in Float] ==
    IF denominator.nan \/ denominator.man # <<>>
    THEN fDiv[numerator, denominator]
    ELSE fZero

\* the numerator and the denominator from n and the five sums
pearson[n \in Float, s \in Sums] ==
    correlationOf[fSub[fMul[n, s.XY], fMul[s.X, s.Y]],
                  mathSqrt[fMul[fSub[fMul[n, s.X2], fMul[s.X, s.X]],
                                fSub[fMul[n, s.Y2], fMul[s.Y, s.Y]]]]]

\* the coefficient printSizeAnalysis prints, computed in float64 as the code does
correlation(prs) == pearson[float64[Len(prs)], floatSums(prs, Len(prs))]

\* the report for a float64 coefficient: > 0.5, > 0.3, else (NaN compares false)
floatReport[c \in Float] ==
    [comp |-> "size",
     Coefficient |-> c,
     Verdict |-> IF fGreater[c, fDiv[float64[1], float64[2]]] THEN "strong"
                 ELSE IF fGreater[c, fDiv[float64[3], float64[10]]] THEN "moderate"
                 ELSE "weak"]

\* When every duration is a whole number of hours the five sums are integers
\* far below 2^53, float64 holds them exactly, and the report keeps the
\* numerator and the squared denominator as integers.  Otherwise the report
\* holds the float64 coefficient itself.
printSizeAnalysis(prs) ==
    IF \E i \in DOMAIN prs : Duration(prs[i]) % Hour # 0
    THEN floatReport[correlation(prs)]
    ELSE
    LET n == Len(prs)
        sumX == SumSeq([i \in DOMAIN prs |-> prs[i].Size])
        sumY == SumSeq([i \in DOMAIN prs |-> durationHours(prs[i])])
        sumXY == SumSeq([i \in DOMAIN prs |-> prs[i].Size * durationHours(prs[i])])
        sumX2 == SumSeq([i \in DOMAIN prs |-> prs[i].Size * prs[i].Size])
        sumY2 == SumSeq([i \in DOMAIN prs |-> durationHours(prs[i]) * durationHours(prs[i])])
        numerator == n * sumXY - sumX * sumY
        denomSq == (n * sumX2 - sumX * sumX) * (n * sumY2 - sumY * sumY)
    IN [comp |-> "size",
        \* correlation = Numerator / sqrt(DenomSq), or 0 when the denominator is 0
        Numerator |-> IF denomSq = 0 THEN 0 ELSE numerator,
        DenomSq   |-> denomSq,
        Verdict   |-> correlationVerdict(numerator, denomSq)]

-----------------------------------------------------------------------------
(* printHotspots.  A path is the sequence of its characters.              *)

RootFiles == <<"(", "r", "o", "o", "t", " ", "f", "i", "l", "e", "s", ")">>

\* parts := strings.Split(path, "/"); root := parts[0];
\* if len(parts) == 1 { root = "(root files)" }
rootOf(path) ==
    IF \A i \in DOMAIN path : path[i] # "/"
    THEN RootFiles
    ELSE SubSeq(path, 1, (CHOOSE i \in DOMAIN path :
                             path[i] = "/" /\ \A j \in 1..(i - 1) : path[j] # "/") - 1)

\* stats[root].TotalDuration += duration; stats[root].Count++
bumpDir(stats, root, duration) ==
    LET cur == IF root \in DOMAIN stats THEN stats[root]
               ELSE [TotalDuration |-> 0, Count |-> 0]
    IN [r \in DOMAIN stats \cup {root} |->
           IF r = root
           THEN [TotalDuration |-> cur.TotalDuration + duration, Count |-> cur.Count + 1]
           ELSE stats[r]]

\* the inner loop without the seenDirs test
countsDir_everyFile(root, seenDirs) == TRUE

\* whether the inner loop counts root for this PR: if !seenDirs[root]
countsDir(root, seenDirs) == root \notin seenDirs

\* the inner loop over pr.FilePaths
RECURSIVE addPaths(_, _, _, _)
addPaths(stats, paths, seenDirs, duration) ==
    IF paths = <<>> THEN stats
    ELSE LET root == rootOf(paths[1]) IN
         IF countsDir(root, seenDirs)
         THEN addPaths(bumpDir(stats, root, duration), Tail(paths),
                       seenDirs \cup {root}, duration)
         ELSE addPaths(stats, Tail(paths), seenDirs, duration)

\* the outer loop: the stats map after all PRs
RECURSIVE hotspotStats(_, _)
hotspotStats(stats, prs) ==
    IF prs = <<>> THEN stats
    ELSE hotspotStats(addPaths(stats, prs[1].FilePaths, {}, Duration(prs[1])), Tail(prs))

dirAvg(s) == GoDiv(s.TotalDuration, s.Count)

\* every report printHotspots can print; Stats is the map after the loop
printHotspots(prs) ==
    LET stats == hotspotStats(<<>>, prs)
        avg == [d \in DOMAIN stats |-> dirAvg(stats[d])]
    IN {[comp  |-> "hotspots",
         Stats |-> stats,
         Lines |-> [i \in DOMAIN firstFive(dirs) |->
                      [Dir |-> dirs[i], Avg |-> avg[dirs[i]], Count |-> stats[dirs[i]].Count]]]
        : dirs \in rankOrders(DOMAIN stats, avg)}

-----------------------------------------------------------------------------
(* printLongTailAuthors *)

\* sort.Slice(sortedPRs, duration descending) on the private copy
sortByDurationDesc(prs) ==
    LET desc(a, b) == Duration(a) > Duration(b)
        key == [i \in DOMAIN prs |-> -Duration(prs[i])]
    IN IF Len(prs) <= 12 THEN {InsertionSort(prs, desc)}
       ELSE {pdqOrder(prs, key, FALSE), pdqOrder(prs, key, TRUE)}

\* the limit rounded up instead of down
slowLimit_roundUp(n) == (n + 9) \div 10

\* limit := len(prs) / 10; if limit == 0 { limit = 1 }
slowLimit(n) == IF n \div 10 = 0 THEN 1 ELSE n \div 10

\* authorCounts over the slowest records
authorCountsOf(slowest) ==
    [a \in {slowest[i].Author : i \in DOMAIN slowest} |->
        Cardinality({i \in DOMAIN slowest : slowest[i].Author = a})]

printLongTailAuthors(prs) ==
    IF Len(prs) = 0
    THEN {Panic("printLongTailAuthors")}  \* sortedPRs[:1] of an empty slice
    ELSE UNION {
           LET slowest == SubSeq(sortedPRs, 1, slowLimit(Len(prs)))
               authorCounts == authorCountsOf(slowest)
           IN {[comp    |-> "longtail",
                Slowest |-> slowest,
                Lines   |-> [i \in DOMAIN firstFive(authors) |->
                               [Author |-> authors[i], Count |-> authorCounts[authors[i]]]]]
               : authors \in rankOrders(DOMAIN authorCounts, authorCounts)}
           : sortedPRs \in sortByDurationDesc(prs)}

-----------------------------------------------------------------------------
(* Months.  pr.MergedAt.Format("2006-01") yields "YYYY-MM"; the string is *)
(* the sequence of its ASCII codes, compared as Go compares strings.      *)

\* the calendar months the model's timestamps fall in, from the epoch on
Calendar ==
    <<[year |-> 2023, month |-> 11, days |-> 30],
      [year |-> 2023, month |-> 12, days |-> 31],
      [year |-> 2024, month |-> 1,  days |-> 31],
      [year |-> 2024, month |-> 2,  days |-> 29],
      [year |-> 2024, month |-> 3,  days |-> 31]>>

\* seconds from the epoch to the start of the i-th month of Calendar
RECURSIVE monthStart(_)
monthStart(i) == IF i = 1 THEN 0 ELSE monthStart(i - 1) + Calendar[i - 1].days * Day

\* the calendar month holding instant t (UTC)
monthOf(t) ==
    Calendar[CHOOSE i \in DOMAIN Calendar :
                monthStart(i) <= t /\ t < monthStart(i) + Calendar[i].days * Day]

digit(d) == 48 + d

formatMonth(t) ==
    LET m == monthOf(t) IN
    <<digit(m.year \div 1000), digit((m.year \div 100) % 10),
      digit((m.year \div 10) % 10), digit(m.year % 10),
      45,
      digit(m.month \div 10), digit(m.month % 10)>>

\* a < b on strings: bytewise lexicographic
RECURSIVE stringLess(_, _)
stringLess(a, b) ==
    IF b = <<>> THEN FALSE
    ELSE IF a = <<>> THEN TRUE
    ELSE IF a[1] # b[1] THEN a[1] < b[1]
    ELSE stringLess(Tail(a), Tail(b))

\* sort.Strings(months)
sortStrings(strs) == InsertionSort(strs, stringLess)

\* the months slice after the grouping loop: each month once, in first-seen order
RECURSIVE monthsSeen(_, _)
monthsSeen(prs, seen) ==
    IF prs = <<>> THEN <<>>
    ELSE LET m == formatMonth(prs[1].MergedAt) IN
         IF m \in seen THEN monthsSeen(Tail(prs), seen)
         ELSE <<m>> \o monthsSeen(Tail(prs), seen \cup {m})

\* the stats map after the grouping loop
monthStats(prs) ==
    [m \in {formatMonth(prs[i].MergedAt) : i \in DOMAIN prs} |->
        LET of == SelectSeq(prs, LAMBDA pr : formatMonth(pr.MergedAt) = m)
        IN [TotalDuration |-> SumSeq(durationsOf(of)), Count |-> Len(of)]]

monthAvg(s) == GoDiv(s.TotalDuration, s.Count)

-----------------------------------------------------------------------------
(* printTrends *)

\* the marker printed for a month of mean avg when the loop holds prevAvg
trendMarker(avg, prevAvg) ==
    IF prevAvg # 0
    THEN IF avg < prevAvg THEN "improving"
         ELSE IF avg > prevAvg THEN "degrading"
         ELSE "flat"
    ELSE ""

\* the lines of the loop over the sorted months; prevAvg starts as 0
RECURSIVE trendLines(_, _, _)
trendLines(months, stats, prevAvg) ==
    IF months = <<>> THEN <<>>
    ELSE LET s == stats[months[1]]
             avg == monthAvg(s)
         IN <<[Month |-> months[1], Avg |-> avg, Count |-> s.Count,
               Trend |-> trendMarker(avg, prevAvg)]>>
            \o trendLines(Tail(months), stats, avg)

printTrends(prs) ==
    [comp  |-> "trends",
     Lines |-> trendLines(sortStrings(monthsSeen(prs, {})), monthStats(prs), 0)]

-----------------------------------------------------------------------------
(* printForecast *)

\* forecastTrend with >= and <= in place of > and <
forecastTrend_inclusive(first, last) ==
    LET diff == last - first
        threshold == GoDiv(first, 10)
    IN IF diff >= threshold THEN "Slowing Down"
       ELSE IF diff <= -threshold THEN "Speeding Up"
       ELSE "Stable"

forecastTrend(first, last) ==
    LET diff == last - first
        threshold == GoDiv(first, 10)
    IN IF diff > threshold THEN "Slowing Down"
       ELSE IF diff < -threshold THEN "Speeding Up"
       ELSE "Stable"

\* printForecast asking for four months
printForecast_fourMonths(prs) ==
    LET months == sortStrings(monthsSeen(prs, {}))
        stats == monthStats(prs)
    IN IF Len(months) < 4
       THEN [comp |-> "forecast", Insufficient |-> TRUE]
       ELSE LET last3 == SubSeq(months, Len(months) - 2, Len(months))
                avgs == [i \in 1..3 |-> monthAvg(stats[last3[i]])]
            IN [comp |-> "forecast", Insufficient |-> FALSE,
                Months   |-> last3,
                Avgs     |-> avgs,
                Forecast |-> GoDiv(SumSeq(avgs), 3),
                Trend    |-> forecastTrend(avgs[1], avgs[3])]

\* printForecast without sort.Strings(months)
printForecast_unsorted(prs) ==
    LET months == monthsSeen(prs, {})
        stats == monthStats(prs)
    IN IF Len(months) < 3
       THEN [comp |-> "forecast", Insufficient |-> TRUE]
       ELSE LET last3 == SubSeq(months, Len(months) - 2, Len(months))
                avgs == [i \in 1..3 |-> monthAvg(stats[last3[i]])]
            IN [comp |-> "forecast", Insufficient |-> FALSE,
                Months   |-> last3,
                Avgs     |-> avgs,
                Forecast |-> GoDiv(SumSeq(avgs), 3),
                Trend    |-> forecastTrend(avgs[1], avgs[3])]

printForecast(prs) ==
    LET months == sortStrings(monthsSeen(prs, {}))
        stats == monthStats(prs)
    IN IF Len(months) < 3
       THEN [comp |-> "forecast", Insufficient |-> TRUE]
       ELSE LET last3 == SubSeq(months, Len(months) - 2, Len(months))
                avgs == [i \in 1..3 |-> monthAvg(stats[last3[i]])]
            IN [comp |-> "forecast", Insufficient |-> FALSE,
                Months   |-> last3,
                Avgs     |-> avgs,
                Forecast |-> GoDiv(SumSeq(avgs), 3),
                Trend    |-> forecastTrend(avgs[1], avgs[3])]

-----------------------------------------------------------------------------
(* printHistogram *)

\* the Max of the first four buckets; the fifth is math.MaxInt64
bucketMax == <<Hour, 24 * Hour, 7 * 24 * Hour, 30 * 24 * Hour>>

\* bucketOf with d <= Max in place of d < Max
bucketOf_inclusive(d) ==
    IF \E i \in DOMAIN bucketMax : d <= bucketMax[i]
    THEN CHOOSE i \in DOMAIN bucketMax :
            d <= bucketMax[i] /\ \A j \in 1..(i - 1) : ~(d <= bucketMax[j])
    ELSE 5

\* index of the first bucket with d < Max (every modelled d is below MaxInt64)
bucketOf(d) ==
    IF \E i \in DOMAIN bucketMax : d < bucketMax[i]
    THEN CHOOSE i \in DOMAIN bucketMax :
            d < bucketMax[i] /\ \A j \in 1..(i - 1) : ~(d < bucketMax[j])
    ELSE 5

printHistogram(prs) ==
    LET counts == [b \in 1..5 |->
                     Cardinality({i \in DOMAIN prs : bucketOf(Duration(prs[i])) = b})]
        maxCount == CHOOSE c \in Range(counts) \cup {0} :
                       \A b \in 1..5 : counts[b] <= c
    IN [comp     |-> "histogram",
        Counts   |-> counts,
        MaxCount |-> maxCount,
        Bars     |-> [b \in 1..5 |-> IF maxCount > 0 THEN (counts[b] * 20) \div maxCount ELSE 0]]

-----------------------------------------------------------------------------
(* printHeroAnalysis *)

\* all reviewer entries of all records, in loop order
RECURSIVE allReviewers(_)
allReviewers(prs) ==
    IF prs = <<>> THEN <<>> ELSE prs[1].Reviewers \o allReviewers(Tail(prs))

\* the reviewCounts map after the loop
reviewCountsOf(prs) ==
    LET all == allReviewers(prs) IN
    [r \in Range(all) |-> Cardinality({i \in DOMAIN all : all[i] = r})]

\* percentageAbove with >= in place of >
percentageAbove_inclusive(count, total, threshold) == count * 100 >= threshold * total

\* float64(count) / float64(total) * 100 > threshold; for totals below 400
\* the float64 comparison agrees with the exact one
percentageAbove(count, total, threshold) == count * 100 > threshold * total

\* "" when the reviewer is not printed (not above 20%)
riskLevel(count, total) ==
    IF percentageAbove(count, total, 20)
    THEN IF percentageAbove(count, total, 50) THEN "CRITICAL RISK"
         ELSE IF percentageAbove(count, total, 30) THEN "High Load"
         ELSE "Healthy"
    ELSE ""

\* foundRisk set by every printed level
setsFoundRisk_anyLine(level) == level # ""

\* whether a printed level sets foundRisk
setsFoundRisk(level) == level \in {"CRITICAL RISK", "High Load"}

printHeroAnalysis(prs) ==
    LET reviewCounts == reviewCountsOf(prs)
        totalReviews == Len(allReviewers(prs))
        level == [r \in DOMAIN reviewCounts |-> riskLevel(reviewCounts[r], totalReviews)]
    IN IF totalReviews = 0
       THEN {[comp |-> "hero", NoReviews |-> TRUE, Counts |-> reviewCounts, Total |-> 0,
              Lines |-> <<>>, WellDistributed |-> FALSE]}
       ELSE {[comp |-> "hero", NoReviews |-> FALSE, Counts |-> reviewCounts,
              Total |-> totalReviews,
              Lines |-> LET shown == SelectSeq(heroes, LAMBDA h : level[h] # "")
                        IN [i \in DOMAIN shown |->
                              [Name |-> shown[i], Count |-> reviewCounts[shown[i]],
                               Risk |-> level[shown[i]]]],
              WellDistributed |-> ~\E h \in DOMAIN reviewCounts : setsFoundRisk(level[h])]
             : heroes \in rankOrders(DOMAIN reviewCounts, reviewCounts)}

-----------------------------------------------------------------------------
(* printStaleAnalysis *)

\* isStale with >= in place of >
isStale_inclusive(pr, now) == now - pr.UpdatedAt >= 7 * 24 * Hour

\* now.Sub(pr.UpdatedAt) > staleThreshold
isStale(pr, now) == now - pr.UpdatedAt > 7 * 24 * Hour

\* int(now.Sub(pr.UpdatedAt).Hours() / 24)
inactiveDays(pr, now) == GoDiv(now - pr.UpdatedAt, 24 * Hour)

printStaleAnalysis(prs, now) ==
    LET stale == SelectSeq(prs, LAMBDA pr : isStale(pr, now)) IN
    [comp  |-> "stale",
     Now   |-> now,
     Lines |-> [i \in DOMAIN stale |->
                  [Number |-> stale[i].Number, Days |-> inactiveDays(stale[i], now)]],
     Clean |-> Len(stale) = 0]

-----------------------------------------------------------------------------
(* printGhostAnalysis *)

\* isOldRequest with >= in place of >
isOldRequest_inclusive(pr, now) == now - pr.CreatedAt >= 48 * Hour

\* now.Sub(pr.CreatedAt) > ghostThreshold
isOldRequest(pr, now) == now - pr.CreatedAt > 48 * Hour

\* every requested entry of the PRs older than 48h, in loop order
RECURSIVE allGhosted(_, _)
allGhosted(prs, now) ==
    IF prs = <<>> THEN <<>>
    ELSE (IF isOldRequest(prs[1], now) THEN prs[1].Requested ELSE <<>>)
         \o allGhosted(Tail(prs), now)

\* the ghosts map after the loop
ghostCountsOf(prs, now) ==
    LET all == allGhosted(prs, now) IN
    [r \in Range(all) |-> Cardinality({i \in DOMAIN all : all[i] = r})]

printGhostAnalysis(prs, now) ==
    LET ghosts == ghostCountsOf(prs, now) IN
    IF DOMAIN ghosts = {}
    THEN {[comp |-> "ghost", Now |-> now, NoGhosts |-> TRUE, Lines |-> <<>>]}
    ELSE {[comp |-> "ghost", Now |-> now, NoGhosts |-> FALSE,
           Lines |-> [i \in DOMAIN names |->
                        [Name |-> names[i], Count |-> ghosts[names[i]]]]]
          : names \in rankOrders(DOMAIN ghosts, ghosts)}

-----------------------------------------------------------------------------
(* The responses the model draws for the two fetches of main *)

\* the instant day days and hour hours after the epoch
At(day, hour) == day * Day + hour * Hour

\* stands for the zero time.Time of a null mergedAt; it is never read
ZeroTime == -(1000 * Day)

Review(t, login) == [CreatedAt |-> t, Author |-> login]

\* GraphQL nodes of merged pull requests, without their number:
\* a reviewed PR of December (one review by its own author, one reviewer twice),
\* an unreviewed PR of January without files, and a PR whose mergedAt
\* precedes its createdAt (clock skew) with a review older than both
MergedShapes ==
    {[CreatedAt |-> At(40, 0), UpdatedAt |-> At(40, 5), MergedAt |-> At(40, 5),
      Author |-> "bob", Additions |-> 10, Deletions |-> 2,
      Reviews |-> <<Review(At(40, 1), "alice"), Review(At(40, 2), "bob"),
                    Review(At(40, 3), "alice")>>,
      ReviewRequests |-> <<>>,
      Files |-> <<<<"a", "/", "x">>, <<"a", "/", "y">>, <<"R">>>>],
     [CreatedAt |-> At(70, 0), UpdatedAt |-> At(70, 1), MergedAt |-> At(70, 1),
      Author |-> "alice", Additions |-> 1, Deletions |-> 0,
      Reviews |-> <<>>,
      ReviewRequests |-> <<>>,
      Files |-> <<>>],
     [CreatedAt |-> At(71, 2), UpdatedAt |-> At(71, 2), MergedAt |-> At(71, 0),
      Author |-> "carol", Additions |-> 3, Deletions |-> 3,
      Reviews |-> <<Review(At(70, 23), "dave")>>,
      ReviewRequests |-> <<>>,
      Files |-> <<<<"b", "/", "z">>>>]}

\* GraphQL nodes of open pull requests: one idle for nine days with a review
\* and two pending requests (one to a team, whose login is empty), one fresh
OpenShapes ==
    {[CreatedAt |-> At(90, 0), UpdatedAt |-> At(91, 0), MergedAt |-> ZeroTime,
      Author |-> "dave", Additions |-> 4, Deletions |-> 0,
      Reviews |-> <<Review(At(90, 5), "erin")>>,
      ReviewRequests |-> <<"alice", "">>,
      Files |-> <<>>],
     [CreatedAt |-> At(99, 12), UpdatedAt |-> At(99, 12), MergedAt |-> ZeroTime,
      Author |-> "erin", Additions |-> 1, Deletions |-> 1,
      Reviews |-> <<>>,
      ReviewRequests |-> <<"bob">>,
      Files |-> <<>>]}

\* the instants time.Now() returns during the open-PR analysis
NowChoices == {At(100, 0), At(100, 1)}

WithNumber(node, n) == [f \in DOMAIN node \cup {"Number"} |->
                           IF f = "Number" THEN n ELSE node[f]]

\* the list fetchPRs accumulates from the nodes picked, numbered from base + 1
fetchedList(picked, base) ==
    [i \in DOMAIN picked |-> toPullRequest(WithNumber(picked[i], base + i))]

-----------------------------------------------------------------------------
(* fetchPRs.  fetch holds the locals of one call: limit, state, allPRs,    *)
(* cursor (the number of nodes the server has handed out, 0 for ""),       *)
(* toFetch and resp of the latest request (the node count and hasNextPage  *)
(* of the response), and at, the position of the call; requests counts the *)
(* requests issued and honoured records that no response held more nodes   *)
(* than its request's `first`.                                             *)

\* no fetchPRs call is followed
NoFetch == [at |-> "idle"]

\* the locals on entry to fetchPRs(owner, name, limit, state, ...)
fetchPRs(limit, state) ==
    [at |-> "loop", limit |-> limit, state |-> state, allPRs |-> <<>>, cursor |-> 0,
     toFetch |-> 0, resp |-> [nodes |-> 0, hasNextPage |-> FALSE],
     requests |-> 0, honoured |-> TRUE]

\* toFetch, ignoring what was fetched already
toFetchOf_limit(limit, fetched) == IF limit < 100 THEN limit ELSE 100

\* remaining := limit - len(allPRs); toFetch := 100; if remaining < 100 { toFetch = remaining }
toFetchOf(limit, fetched) == IF limit - fetched < 100 THEN limit - fetched ELSE 100

-----------------------------------------------------------------------------
(* main *)

\* the records main's mergedPRs slice holds
merged == Slice(mergedArr, mergedPRs)

Init ==
    /\ pc = "parse"
    /\ excludeOutliers = FALSE
    /\ fetchedMerged = <<>>
    /\ mergedArr = <<>>
    /\ mergedPRs = WholeSlice(<<>>)
    /\ openPRs = <<>>
    /\ out = <<>>
    /\ fetch = NoFetch

\* print one report and move on; a panic ends the process
Emit(report, next) ==
    /\ out' = Append(out, report)
    /\ pc' = IF IsPanic(report) THEN "panic" ELSE next
    /\ UNCHANGED <<excludeOutliers, fetchedMerged, mergedArr, mergedPRs, openPRs, fetch>>

\* where main goes after the merged-PR analysis: if len(openPRs) > 0
afterMergedAnalysis == IF Len(openPRs) > 0 THEN "stale" ELSE "done"

\* main handing the open list to printHeroAnalysis
heroPopulation_open(mergedList, openList) == openList

\* the list main hands to printHeroAnalysis
heroPopulation(mergedList, openList) == mergedList

\* flag.Parse and the argument checks
ParseFlags ==
    /\ pc = "parse"
    /\ \/ /\ pc' = "exit1"
          /\ out' = Append(out, [comp |-> "usage"])
          /\ UNCHANGED <<excludeOutliers, fetchedMerged, mergedArr, mergedPRs, openPRs, fetch>>
       \/ /\ excludeOutliers' \in BOOLEAN
          /\ pc' = "fetchMerged"
          /\ UNCHANGED <<fetchedMerged, mergedArr, mergedPRs, openPRs, out, fetch>>

\* mergedPRs, err := fetchPRs(..., *limit, "MERGED", ...)
FetchMerged ==
    /\ pc = "fetchMerged"
    /\ \/ /\ pc' = "exit1"
          /\ out' = Append(out, [comp |-> "fetchError", state |-> "MERGED"])
          /\ UNCHANGED <<excludeOutliers, fetchedMerged, mergedArr, mergedPRs, openPRs, fetch>>
       \/ \E n \in 0..MaxMerged : \E picked \in [1..n -> MergedShapes] :
            /\ fetchedMerged' = fetchedList(picked, 0)
            /\ mergedArr' = fetchedList(picked, 0)
            /\ mergedPRs' = WholeSlice(picked)
            /\ pc' = "fetchOpen"
            /\ UNCHANGED <<excludeOutliers, openPRs, out, fetch>>

\* main leaving with os.Exit(1) when the open fetch fails
FetchOpen_fatal ==
    /\ pc = "fetchOpen"
    /\ \/ /\ openPRs' = <<>>
          /\ out' = Append(out, [comp |-> "fetchError", state |-> "OPEN"])
          /\ pc' = "exit1"
          /\ UNCHANGED <<excludeOutliers, fetchedMerged, mergedArr, mergedPRs, fetch>>
       \/ \E n \in 0..MaxOpen : \E picked \in [1..n -> OpenShapes] :
            /\ openPRs' = fetchedList(picked, 100)
            /\ pc' = "check"
            /\ UNCHANGED <<excludeOutliers, fetchedMerged, mergedArr, mergedPRs, out, fetch>>

\* openPRs, err := fetchPRs(..., 100, "OPEN", ...); an error is only printed
FetchOpen ==
    /\ pc = "fetchOpen"
    /\ \/ /\ openPRs' = <<>>
          /\ out' = Append(out, [comp |-> "fetchError", state |-> "OPEN"])
          /\ pc' = "check"
          /\ UNCHANGED <<excludeOutliers, fetchedMerged, mergedArr, mergedPRs, fetch>>
       \/ \E n \in 0..MaxOpen : \E picked \in [1..n -> OpenShapes] :
            /\ openPRs' = fetchedList(picked, 100)
            /\ pc' = "check"
            /\ UNCHANGED <<excludeOutliers, fetchedMerged, mergedArr, mergedPRs, out, fetch>>

\* the three length tests of main
CheckNoPRs ==
    /\ pc = "check"
    /\ IF Len(merged) = 0 /\ Len(openPRs) = 0
       THEN Emit([comp |-> "noPRs"], "done")
       ELSE /\ pc' = IF Len(merged) > 0
                     THEN (IF excludeOutliers THEN "filter" ELSE "generalStats")
                     ELSE afterMergedAnalysis
            /\ UNCHANGED <<excludeOutliers, fetchedMerged, mergedArr, mergedPRs, openPRs, out, fetch>>

\* mergedPRs = filterOutliers(mergedPRs), and the line that reports it
Main_filterOutliers ==
    /\ pc = "filter"
    /\ \E r \in filterOutliers(merged) :
         /\ mergedArr' = r.arr
         /\ mergedPRs' = r.hdr
         /\ out' = Append(out, [comp |-> "filter", From |-> Len(merged), To |-> r.hdr.len])
    /\ pc' = "generalStats"
    /\ UNCHANGED <<excludeOutliers, fetchedMerged, openPRs, fetch>>

\* main handing the list as fetched to printGeneralStats
Main_printGeneralStats_raw ==
    /\ pc = "generalStats"
    /\ Emit(printGeneralStats(fetchedMerged), "reviewStats")

Main_printGeneralStats ==
    /\ pc = "generalStats"
    /\ Emit(printGeneralStats(merged), "reviewStats")

Main_printReviewStats ==
    /\ pc = "reviewStats"
    /\ Emit(printReviewStats(merged), "sizeAnalysis")

Main_printSizeAnalysis ==
    /\ pc = "sizeAnalysis"
    /\ Emit(printSizeAnalysis(merged), "hotspots")

Main_printHotspots ==
    /\ pc = "hotspots"
    /\ \E r \in printHotspots(merged) : Emit(r, "longTail")

Main_printLongTailAuthors ==
    /\ pc = "longTail"
    /\ \E r \in printLongTailAuthors(merged) : Emit(r, "trends")

Main_printTrends ==
    /\ pc = "trends"
    /\ Emit(printTrends(merged), "forecast")

Main_printForecast ==
    /\ pc = "forecast"
    /\ Emit(printForecast(merged), "histogram")

Main_printHistogram ==
    /\ pc = "histogram"
    /\ Emit(printHistogram(merged), "hero")

Main_printHeroAnalysis ==
    /\ pc = "hero"
    /\ \E r \in printHeroAnalysis(heroPopulation(merged, openPRs)) :
         Emit(r, afterMergedAnalysis)

Main_printStaleAnalysis ==
    /\ pc = "stale"
    /\ \E now \in NowChoices : Emit(printStaleAnalysis(openPRs, now), "ghost")

\* time.Now() does not run backwards between the two detectors
Main_printGhostAnalysis ==
    /\ pc = "ghost"
    /\ \E now \in NowChoices :
         /\ now >= Get("stale").Now
         /\ \E r \in printGhostAnalysis(openPRs, now) : Emit(r, "done")

Next ==
    \/ ParseFlags
    \/ FetchMerged
    \/ FetchOpen
    \/ CheckNoPRs
    \/ Main_filterOutliers
    \/ Main_printGeneralStats
    \/ Main_printReviewStats
    \/ Main_printSizeAnalysis
    \/ Main_printHotspots
    \/ Main_printLongTailAuthors
    \/ Main_printTrends
    \/ Main_printForecast
    \/ Main_printHistogram
    \/ Main_printHeroAnalysis
    \/ Main_printStaleAnalysis
    \/ Main_printGhostAnalysis

Spec == Init /\ [][Next]_vars

-----------------------------------------------------------------------------
(* Runs of main from a later statement on.  Each specification below      *)
(* starts main at the call of one analysis, with --exclude-outliers off   *)
(* (SpecFilter: on) and no open PRs, on merged samples drawn for that     *)
(* analysis, and out holding what main has printed up to there.           *)

\* every sequence of the eight velocity reports main prints for sample m
mergedReports(m) ==
    {<<printGeneralStats(m), printReviewStats(m), printSizeAnalysis(m), h, l,
       printTrends(m), printForecast(m), printHistogram(m)>>
     : h \in printHotspots(m), l \in printLongTailAuthors(m)}

\* main at position at, holding sample m, having printed the first k reports
MainAt(at, flag, m, k) ==
    /\ pc = at
    /\ excludeOutliers = flag
    /\ fetchedMerged = m
    /\ mergedArr = m
    /\ mergedPRs = WholeSlice(m)
    /\ openPRs = <<>>
    /\ out \in {SubSeq(r, 1, k) : r \in mergedReports(m)}
    /\ fetch = NoFetch

\* a merged node of the given creation time, duration, author, reviewers and files
MergedNode(created, duration, author, reviewers, files) ==
    [CreatedAt |-> created, UpdatedAt |-> created + duration,
     MergedAt |-> created + duration,
     Author |-> author, Additions |-> 1, Deletions |-> 0,
     Reviews |-> [i \in DOMAIN reviewers |-> Review(created, reviewers[i])],
     ReviewRequests |-> <<>>,
     Files |-> files]

(* SpecFilter: filterOutliers on samples of up to MaxFilterN records *)

FilterPatterns == 1..4

\* the duration of the i-th record of pattern p: few values with many ties,
\* a scrambled order of distinct values, an ascending order, and a pattern
\* with zero and negative durations
filterDuration(p, i) ==
    CASE p = 1 -> ((i * 7) % 5) * Hour
      [] p = 2 -> ((i * 11 + 3) % 43) * Hour
      [] p = 3 -> i * Hour
      [] p = 4 -> (((i * 3) % 4) - 1) * Hour

filterSample(p, n) ==
    fetchedList([i \in 1..n |-> MergedNode(At(10, 0), filterDuration(p, i), "bob", <<>>, <<>>)], 0)

InitFilter ==
    \E p \in FilterPatterns : \E n \in 1..MaxFilterN :
        MainAt("filter", TRUE, filterSample(p, n), 0)

NextFilter == Main_filterOutliers

SpecFilter == InitFilter /\ [][NextFilter]_vars

(* SpecHero: printHeroAnalysis on samples with chosen review counts *)

HeroNames == <<"alice", "bob", "carol", "dave">>

\* a sample in which HeroNames[j] reviewed counts[j] PRs: the i-th PR is
\* reviewed by everyone whose count is at least i
heroSample(counts) ==
    LET n == Max(1, Max(Max(counts[1], counts[2]), Max(counts[3], counts[4])))
        who(i) == SelectSeq(HeroNames,
                            LAMBDA name : \E j \in 1..4 : HeroNames[j] = name /\ counts[j] >= i)
    IN fetchedList([i \in 1..n |-> MergedNode(At(40, 0), Hour, "zed", who(i), <<>>)], 0)

InitHero ==
    \E counts \in [1..4 -> 0..MaxHeroCount] : MainAt("hero", FALSE, heroSample(counts), 8)

NextHero == Main_printHeroAnalysis

SpecHero == InitHero /\ [][NextHero]_vars

(* SpecTrends: printTrends and printForecast on samples over three months *)

\* merged on 11 December 2023, 10 January 2024 or 9 February 2024,
\* after 0, 1 or 2 hours
TrendShapes ==
    {MergedNode(At(day, 0) - h * Hour, h * Hour, "bob", <<>>, <<>>)
     : day \in {40, 70, 100}, h \in 0..2}

InitTrends ==
    \E n \in 1..MaxTrendPRs : \E picked \in [1..n -> TrendShapes] :
        MainAt("trends", FALSE, fetchedList(picked, 0), 5)

NextTrends == Main_printTrends \/ Main_printForecast

SpecTrends == InitTrends /\ [][NextTrends]_vars

(* SpecHotspots: printHotspots on samples with chosen file lists *)

HotFiles ==
    {<<>>,
     <<<<"a", "/", "x">>, <<"a", "/", "y">>>>,
     <<<<"a", "/", "x">>, <<"b">>, <<"a", "/", "b", "/", "y">>>>,
     <<<<"R">>, <<"b", "/", "z">>, <<"a">>>>,
     <<<<"/", "e">>, <<"b", "/">>>>}

HotShapes ==
    {MergedNode(At(40, 0), h * Hour, "bob", <<>>, files) : h \in {1, 3}, files \in HotFiles}

InitHotspots ==
    \E n \in 1..MaxHotPRs : \E picked \in [1..n -> HotShapes] :
        MainAt("hotspots", FALSE, fetchedList(picked, 0), 3)

NextHotspots == Main_printHotspots

SpecHotspots == InitHotspots /\ [][NextHotspots]_vars

(* SpecHotRank: printHotspots on samples that touch up to six directories *)

\* file lists under two directories each, and one under three
RankFiles ==
    {<<<<"c", "/", "x">>, <<"d", "/", "x">>>>,
     <<<<"e", "/", "x">>, <<"f", "/", "x">>>>}

RankSlowFiles == <<<<"g", "/", "x">>, <<"h", "/", "x">>, <<"c", "/", "y">>>>

RankShapes ==
    {MergedNode(At(40, 0), h * Hour, "bob", <<>>, files) : h \in {1, 3}, files \in RankFiles}
    \cup {MergedNode(At(40, 0), 3 * Hour, "bob", <<>>, RankSlowFiles)}

InitHotRank ==
    \E n \in 1..MaxRankPRs : \E picked \in [1..n -> RankShapes] :
        MainAt("hotspots", FALSE, fetchedList(picked, 0), 3)

NextHotRank == Main_printHotspots

SpecHotRank == InitHotRank /\ [][NextHotRank]_vars

(* SpecLongTail: printLongTailAuthors on samples of up to MaxTailN records *)

TailAuthors == <<"alice", "bob", "carol">>

\* the durations of filterDuration, the authors taking turns
tailSample(p, n) ==
    fetchedList([i \in 1..n |->
                    MergedNode(At(10, 0), filterDuration(p, i), TailAuthors[(i % 3) + 1],
                               <<>>, <<>>)], 0)

InitLongTail ==
    \E p \in FilterPatterns : \E n \in 1..MaxTailN :
        MainAt("longTail", FALSE, tailSample(p, n), 4)

NextLongTail == Main_printLongTailAuthors

SpecLongTail == InitLongTail /\ [][NextLongTail]_vars

(* SpecForecast: printForecast on samples over up to four months *)

\* merged on 11 November, 11 December, 10 January or 9 February after the
\* given number of hours
ForecastShapes ==
    {MergedNode(At(10, 0) - 48 * Hour, 48 * Hour, "bob", <<>>, <<>>)}
    \cup {MergedNode(At(40, 0) - h * Hour, h * Hour, "bob", <<>>, <<>>) : h \in {40, 48}}
    \cup {MergedNode(At(70, 0) - 24 * Hour, 24 * Hour, "bob", <<>>, <<>>)}
    \cup {MergedNode(At(100, 0) - h * Hour, h * Hour, "bob", <<>>, <<>>) : h \in {12, 36, 44, 52}}

InitForecast ==
    \E n \in 1..MaxForecastPRs : \E picked \in [1..n -> ForecastShapes] :
        MainAt("forecast", FALSE, fetchedList(picked, 0), 6)

NextForecast == Main_printForecast

SpecForecast == InitForecast /\ [][NextForecast]_vars

(* SpecHistogram: printHistogram on samples with durations on and around  *)
(* the bucket bounds                                                       *)

\* durations in hours: negative, zero, and each bound of 1h, 1d, 1w and 30d
\* with a neighbour
HistHours == {-2, 0, 1, 23, 24, 167, 168, 719, 720, 721}

HistShapes ==
    {MergedNode(At(40, 0) - h * Hour, h * Hour, "bob", <<>>, <<>>) : h \in HistHours}

InitHistogram ==
    \E n \in 1..MaxHistPRs : \E picked \in [1..n -> HistShapes] :
        MainAt("histogram", FALSE, fetchedList(picked, 0), 7)

NextHistogram == Main_printHistogram

SpecHistogram == InitHistogram /\ [][NextHistogram]_vars

(* SpecOpen: the open-PR analysis of a run whose merged fetch returned     *)
(* nothing, on open lists with ages on and around the two thresholds       *)

\* an open node created and last updated at the given instants
OpenNode(created, updated, reviews, requests) ==
    [CreatedAt |-> created, UpdatedAt |-> updated, MergedAt |-> ZeroTime,
     Author |-> "dave", Additions |-> 1, Deletions |-> 0,
     Reviews |-> reviews, ReviewRequests |-> requests, Files |-> <<>>]

\* against the earlier instant of NowChoices: idle for exactly 7 days; idle
\* for 8 days; created exactly 48h ago, one request to a team; created 72h
\* ago, reviewed by alice and still waiting for bob; created 12h ago;
\* created 72h ago with nobody requested
OpenListShapes ==
    {OpenNode(At(80, 0), At(93, 0), <<>>, <<"alice", "bob">>),
     OpenNode(At(80, 0), At(92, 0), <<>>, <<"bob">>),
     OpenNode(At(98, 0), At(98, 0), <<>>, <<"alice", "">>),
     OpenNode(At(97, 0), At(98, 0), <<Review(At(98, 0), "alice")>>, <<"bob">>),
     OpenNode(At(99, 12), At(99, 12), <<>>, <<"carol">>),
     OpenNode(At(97, 0), At(97, 0), <<>>, <<>>)}

InitOpen ==
    \E n \in 1..MaxOpenListed : \E picked \in [1..n -> OpenListShapes] :
        /\ pc = "stale"
        /\ excludeOutliers = FALSE
        /\ fetchedMerged = <<>>
        /\ mergedArr = <<>>
        /\ mergedPRs = WholeSlice(<<>>)
        /\ openPRs = fetchedList(picked, 100)
        /\ out = <<>>
        /\ fetch = NoFetch

NextOpen == Main_printStaleAnalysis \/ Main_printGhostAnalysis

SpecOpen == InitOpen /\ [][NextOpen]_vars

(* SpecReview: printReviewStats on samples with reviews before creation,   *)
(* after the merge, and without reviews                                    *)

\* a node created on 11 December and merged 5 hours later, reviewed at the
\* given offsets (in hours) from its creation
ReviewedNode(offsets) ==
    [CreatedAt |-> At(40, 0), UpdatedAt |-> At(40, 5), MergedAt |-> At(40, 5),
     Author |-> "bob", Additions |-> 1, Deletions |-> 0,
     Reviews |-> [i \in DOMAIN offsets |-> Review(At(40, 0) + offsets[i] * Hour, "alice")],
     ReviewRequests |-> <<>>,
     Files |-> <<>>]

ReviewShapes ==
    {ReviewedNode(offsets) : offsets \in {<<>>, <<1>>, <<-1>>, <<6>>, <<2, 3>>}}

InitReview ==
    \E n \in 1..MaxReviewPRs : \E picked \in [1..n -> ReviewShapes] :
        MainAt("reviewStats", FALSE, fetchedList(picked, 0), 1)

NextReview == Main_printReviewStats

SpecReview == InitReview /\ [][NextReview]_vars

(* SpecMedian: printGeneralStats on samples of up to MaxMedianN records *)

InitMedian ==
    \E p \in FilterPatterns : \E n \in 1..MaxMedianN :
        MainAt("generalStats", FALSE, filterSample(p, n), 0)

NextMedian == Main_printGeneralStats

SpecMedian == InitMedian /\ [][NextMedian]_vars

(* SpecSize: printSizeAnalysis on samples with chosen sizes and durations *)

\* the lines changed by the i-th record: 1, 2, 4, 5, 7, ...
sizeAt(i) == i + ((i - 1) \div 2)

SizeHours == {0, 1, 3, 4}

\* the i-th record has sizeAt(i) lines and was merged after hours[i] hours
sizeSample(hours) ==
    fetchedList([i \in DOMAIN hours |->
                    [CreatedAt |-> At(40, 0), UpdatedAt |-> At(40, hours[i]),
                     MergedAt |-> At(40, hours[i]),
                     Author |-> "bob", Additions |-> sizeAt(i), Deletions |-> 0,
                     Reviews |-> <<>>, ReviewRequests |-> <<>>, Files |-> <<>>]], 0)

InitSize ==
    \E n \in 1..MaxSizePRs : \E hours \in [1..n -> SizeHours] :
        MainAt("sizeAnalysis", FALSE, sizeSample(hours), 2)

NextSize == Main_printSizeAnalysis

SpecSize == InitSize /\ [][NextSize]_vars

(* SpecCorrelation: printSizeAnalysis on durations that are not whole hours *)

\* merge durations in seconds: 10 s, 16 min 40 s, one day and a second
CorrSeconds == {10, 1000, 86401}

\* the i-th record has sizes[i] lines and was merged after secs[i] seconds
corrSample(sizes, secs) ==
    fetchedList([i \in DOMAIN secs |->
                    [CreatedAt |-> At(40, 0), UpdatedAt |-> At(40, 0) + secs[i],
                     MergedAt |-> At(40, 0) + secs[i],
                     Author |-> "bob", Additions |-> sizes[i], Deletions |-> 0,
                     Reviews |-> <<>>, ReviewRequests |-> <<>>, Files |-> <<>>]], 0)

\* the sizes are all different (sizeAt) or all 3
InitCorrelation ==
    \E n \in 1..MaxCorrPRs : \E secs \in [1..n -> CorrSeconds] :
        \E sizes \in {[i \in 1..n |-> sizeAt(i)], [i \in 1..n |-> 3]} :
            MainAt("sizeAnalysis", FALSE, corrSample(sizes, secs), 2)

NextCorrelation == Main_printSizeAnalysis

SpecCorrelation == InitCorrelation /\ [][NextCorrelation]_vars

(* SpecFetch: the pagination loop of fetchPRs, request by request *)

\* the node every response of SpecFetch repeats
pageNode == MergedNode(At(10, 0), Hour, "bob", <<>>, <<>>)

\* the node counts a response to `first: toFetch` may hold: none, one, as
\* many as asked, and one more than asked
PageSizes(toFetch) == {0, 1, toFetch, toFetch + 1}

\* one pass of the loop `for len(allPRs) < limit`: the request, then a failure
\* (timeout, gh error, malformed JSON) or a response of k nodes
fetchPRs_page ==
    /\ fetch.at = "loop"
    /\ Len(fetch.allPRs) < fetch.limit
    /\ LET toFetch == toFetchOf(fetch.limit, Len(fetch.allPRs))
           asked == [fetch EXCEPT !.toFetch = toFetch, !.requests = @ + 1]
       IN \/ fetch' = [asked EXCEPT !.at = "fail", !.allPRs = <<>>]
          \/ \E k \in PageSizes(toFetch) : \E hasNextPage \in BOOLEAN :
                fetch' = [asked EXCEPT
                            !.resp = [nodes |-> k, hasNextPage |-> hasNextPage],
                            !.honoured = @ /\ k <= toFetch,
                            !.allPRs = @ \o fetchedList([i \in 1..k |-> pageNode], Len(@)),
                            !.cursor = IF k > 0 /\ hasNextPage THEN @ + k ELSE @,
                            !.at = IF k = 0 \/ ~hasNextPage THEN "return" ELSE "loop"]
    /\ UNCHANGED <<pc, excludeOutliers, fetchedMerged, mergedArr, mergedPRs, openPRs, out>>

\* return allPRs, nil (after the loop condition failed or a break), and main
\* taking the list
fetchPRs_return ==
    /\ \/ fetch.at = "return"
       \/ fetch.at = "loop" /\ Len(fetch.allPRs) >= fetch.limit
    /\ fetch' = [fetch EXCEPT !.at = "done"]
    /\ IF fetch.state = "MERGED"
       THEN /\ fetchedMerged' = fetch.allPRs
            /\ mergedArr' = fetch.allPRs
            /\ mergedPRs' = WholeSlice(fetch.allPRs)
            /\ pc' = "fetchOpen"
            /\ UNCHANGED <<excludeOutliers, openPRs, out>>
       ELSE /\ openPRs' = fetch.allPRs
            /\ pc' = "check"
            /\ UNCHANGED <<excludeOutliers, fetchedMerged, mergedArr, mergedPRs, out>>

\* return nil, err, and main printing the error
fetchPRs_fail ==
    /\ fetch.at = "fail"
    /\ fetch' = [fetch EXCEPT !.at = "done"]
    /\ out' = Append(out, [comp |-> "fetchError", state |-> fetch.state])
    /\ pc' = IF fetch.state = "MERGED" THEN "exit1" ELSE "check"
    /\ openPRs' = IF fetch.state = "MERGED" THEN openPRs ELSE <<>>
    /\ UNCHANGED <<excludeOutliers, fetchedMerged, mergedArr, mergedPRs>>

\* the values of --limit
FetchLimits == (0..3) \cup (100..MaxLimit)

\* main calling fetchPRs for the merged list with a limit, or for the open
\* list with limit 100
InitFetch ==
    /\ excludeOutliers = FALSE
    /\ fetchedMerged = <<>>
    /\ mergedArr = <<>>
    /\ mergedPRs = WholeSlice(<<>>)
    /\ openPRs = <<>>
    /\ out = <<>>
    /\ \/ pc = "fetchMerged" /\ \E limit \in FetchLimits : fetch = fetchPRs(limit, "MERGED")
       \/ pc = "fetchOpen" /\ fetch = fetchPRs(100, "OPEN")

NextFetch == fetchPRs_page \/ fetchPRs_return \/ fetchPRs_fail

SpecFetch == InitFetch /\ [][NextFetch]_vars

-----------------------------------------------------------------------------
(* Claims *)

\* the records of list that are not in kept
removedFrom(list, kept) == Range(list) \ Range(kept)

\* C1: for a sample of n >= 4 records filterOutliers returns exactly
\* n - 2*max(1, floor(0.05*n)) of them, in ascending order of duration, and
\* the removed records split into a fast tail and a slow tail of
\* max(1, floor(0.05*n)) records each: no record kept is slower than a record
\* of the slow tail or faster than a record of the fast tail.
C1_FilterKeepsTheMiddle ==
    (pc = "generalStats" /\ Has("filter") /\ Len(fetchedMerged) >= 4) =>
        LET n == Len(fetchedMerged)
            cut == Max(1, n \div 20)
            removed == removedFrom(fetchedMerged, merged)
            fast == {r \in removed : \A i \in DOMAIN merged : Duration(r) <= Duration(merged[i])}
            slow == {r \in removed : \A i \in DOMAIN merged : Duration(r) >= Duration(merged[i])}
        IN /\ Len(merged) = n - 2 * cut
           /\ Range(merged) \subseteq Range(fetchedMerged)
           /\ Cardinality(Range(merged)) = Len(merged)
           /\ Cardinality(removed) = 2 * cut
           /\ removed = fast \cup slow
           /\ Cardinality(fast) >= cut
           /\ Cardinality(slow) >= cut
           /\ \A i \in 1..(Len(merged) - 1) : Duration(merged[i]) <= Duration(merged[i + 1])

\* a sample of 40 or more records given in an order that is not ascending,
\* from which two records were cut at each end
C1_Witness ==
    /\ pc = "generalStats"
    /\ Has("filter")
    /\ Len(fetchedMerged) >= 40
    /\ Len(merged) = Len(fetchedMerged) - 4
    /\ mergedArr # fetchedMerged

\* C2: no component changes the caller's input sequence: the array behind
\* main's merged list holds the fetched records in the fetched order at
\* every point of the run.
C2_InputNeverReordered == mergedArr = fetchedMerged

\* C3: printGeneralStats is only ever called on a sample of at least one
\* record, whatever was fetched and whether or not the filter ran; the filter
\* leaves at least one record of every non-empty sample, and no division by a
\* zero count is reached.
C3_StatsOnNonEmptySample ==
    /\ pc = "generalStats" => Len(merged) >= 1
    /\ Has("filter") => (Get("filter").From >= 1 /\ Get("filter").To >= 1)
    /\ Has("general") => Get("general").Count >= 1
    /\ pc # "panic"

\* the filter cut a sample of four records to two and the statistics ran on them
C3_Witness ==
    /\ Has("filter")
    /\ Get("filter").From = 4
    /\ Has("general")
    /\ Get("general").Count = 2

\* C4: a run that fetched no merged PR ends, without a panic, having printed
\* an explicit no-data result in place of the merged-PR statistics, also when
\* open PRs were fetched.
C4_EmptyMergedReportsNoData ==
    /\ pc # "panic"
    /\ (pc = "done" /\ Len(fetchedMerged) = 0) => Has("noPRs")

\* C5: no duration printed by a merged-PR report is negative, a record with
\* mergedAt before createdAt counting as duration 0.
C5_NoNegativeDurationReported ==
    /\ Has("general") =>
          /\ Get("general").Min >= 0
          /\ Get("general").Average >= 0
          /\ Get("general").Median >= 0
          /\ Get("general").Max >= 0
    /\ Has("hotspots") =>
          \A i \in DOMAIN Get("hotspots").Lines : Get("hotspots").Lines[i].Avg >= 0
    /\ Has("trends") =>
          \A i \in DOMAIN Get("trends").Lines : Get("trends").Lines[i].Avg >= 0
    /\ (Has("forecast") /\ ~Get("forecast").Insufficient) => Get("forecast").Forecast >= 0

\* the number of records of list that login reviewed
reviewsBy(login, list) ==
    Cardinality({i \in DOMAIN list : login \in Range(list[i].Reviewers)})

\* everyone who reviewed a record of list
reviewersOf(list) == UNION {Range(list[i].Reviewers) : i \in DOMAIN list}

totalReviewsIn(list) == SumSeq([i \in DOMAIN list |-> Cardinality(Range(list[i].Reviewers))])

\* the hero report's line for login, or "" when it has none
heroLineOf(login) ==
    LET L == Get("hero").Lines IN
    IF \E i \in DOMAIN L : L[i].Name = login
    THEN L[CHOOSE i \in DOMAIN L : L[i].Name = login].Risk
    ELSE ""

\* C6 as stated: shares above 50% are critical, 30-50% high load, 20-30%
\* healthy, 20% and below unreported, and a share of exactly 50% is critical.
C6_ExactlyHalfIsCritical ==
    Has("hero") =>
        LET total == totalReviewsIn(merged) IN
        \A r \in reviewersOf(merged) :
            LET c == reviewsBy(r, merged) IN
            heroLineOf(r) = IF 100 * c >= 50 * total THEN "CRITICAL RISK"
                            ELSE IF 100 * c > 30 * total THEN "High Load"
                            ELSE IF 100 * c > 20 * total THEN "Healthy"
                            ELSE ""

\* C6, amended: every lower threshold is exclusive: a share above 50% is
\* critical, above 30% and at most 50% high load, above 20% and at most 30%
\* healthy, at most 20% unreported; a share of exactly 50% is high load, and
\* each reported reviewer has one line.
C6_HeroThresholds ==
    Has("hero") =>
        LET total == totalReviewsIn(merged)
            L == Get("hero").Lines
        IN /\ \A r \in reviewersOf(merged) :
                LET c == reviewsBy(r, merged) IN
                /\ heroLineOf(r) = IF 100 * c > 50 * total THEN "CRITICAL RISK"
                                   ELSE IF 100 * c > 30 * total THEN "High Load"
                                   ELSE IF 100 * c > 20 * total THEN "Healthy"
                                   ELSE ""
                /\ 2 * c = total => heroLineOf(r) = "High Load"
           /\ \A i, j \in DOMAIN L : L[i].Name = L[j].Name => i = j
           /\ \A i \in DOMAIN L : L[i].Name \in reviewersOf(merged)

\* ten reviews shared 5, 3 and 2: the reviewer at exactly 50% is printed as
\* high load, the one at exactly 30% as healthy, the one at exactly 20% not
C6_Witness ==
    /\ Has("hero")
    /\ totalReviewsIn(merged) = 10
    /\ reviewsBy("alice", merged) = 5 /\ heroLineOf("alice") = "High Load"
    /\ reviewsBy("bob", merged) = 3 /\ heroLineOf("bob") = "Healthy"
    /\ reviewsBy("carol", merged) = 2 /\ heroLineOf("carol") = ""

\* C7 as stated, for a dataset with reviews: "well distributed" is printed
\* exactly when no reviewer's share is above 20%, and never together with a
\* reviewer line.
C7_WellDistributedIffNoLine ==
    (Has("hero") /\ totalReviewsIn(merged) > 0) =>
        /\ Get("hero").WellDistributed <=>
              \A r \in reviewersOf(merged) :
                  100 * reviewsBy(r, merged) <= 20 * totalReviewsIn(merged)
        /\ Get("hero").WellDistributed => Get("hero").Lines = <<>>

\* C7, amended: "well distributed" is printed exactly when there is at least
\* one review and no reviewer's share is above 30%; it is never printed
\* together with a critical or high-load line, and follows the healthy lines of the
\* reviewers between 20% and 30%; with no review at all "no reviews found"
\* is printed instead.
C7_WellDistributedIffNoRisk ==
    Has("hero") =>
        LET h == Get("hero")
            total == totalReviewsIn(merged)
        IN /\ h.WellDistributed <=>
                 /\ total > 0
                 /\ \A r \in reviewersOf(merged) : 100 * reviewsBy(r, merged) <= 30 * total
           /\ h.WellDistributed => \A i \in DOMAIN h.Lines : h.Lines[i].Risk = "Healthy"
           /\ h.NoReviews <=> total = 0
           /\ h.NoReviews => (h.Lines = <<>> /\ ~h.WellDistributed)

\* four reviewers at 25% each: four healthy lines and "well distributed"
C7_Witness ==
    /\ Has("hero")
    /\ Get("hero").WellDistributed
    /\ Len(Get("hero").Lines) = 4
    /\ \A r \in reviewersOf(merged) : 4 * reviewsBy(r, merged) = totalReviewsIn(merged)

\* year and month of a merged record as one number, for chronological order
chronOf(pr) == monthOf(pr.MergedAt).year * 12 + monthOf(pr.MergedAt).month

\* the chronological number of the month a trend line is about
lineChron(line) ==
    chronOf(CHOOSE pr \in Range(merged) : formatMonth(pr.MergedAt) = line.Month)

\* C9: the trend lines are one per month in ascending chronological order;
\* the first has no marker and every later one has the marker that compares
\* its mean with the mean of the line before it, whatever that mean is.
C9_EveryLaterMonthMarked ==
    Has("trends") =>
        LET L == Get("trends").Lines IN
        /\ Len(L) = Cardinality({chronOf(pr) : pr \in Range(merged)})
        /\ \A i \in 1..(Len(L) - 1) : lineChron(L[i]) < lineChron(L[i + 1])
        /\ \A i \in DOMAIN L :
              L[i].Trend = IF i = 1 THEN ""
                           ELSE IF L[i].Avg < L[i - 1].Avg THEN "improving"
                           ELSE IF L[i].Avg > L[i - 1].Avg THEN "degrading"
                           ELSE "flat"

\* the top-level segment of a path by the reference definition: what precedes
\* its first '/', or the root-files group when it has none
topSegment(path) ==
    IF "/" \in Range(path)
    THEN LET k == CHOOSE k \in 0..(Len(path) - 1) :
                     path[k + 1] = "/" /\ "/" \notin Range(SubSeq(path, 1, k))
         IN SubSeq(path, 1, k)
    ELSE RootFiles

\* the records of the merged list with a path under group g
touching(g) ==
    {i \in DOMAIN merged :
        \E k \in DOMAIN merged[i].FilePaths : topSegment(merged[i].FilePaths[k]) = g}

\* C10: the hotspot groups are exactly the top-level segments of the paths of
\* the merged PRs; each group's count is the number of PRs with a path under
\* it and its total the sum of their durations, each PR once; a PR without
\* paths is in no group; every printed line carries its group's count and
\* mean.
C10_HotspotGroupsMatchReference ==
    Has("hotspots") =>
        LET S == Get("hotspots").Stats
            L == Get("hotspots").Lines
            groups == UNION {{topSegment(merged[i].FilePaths[k]) : k \in DOMAIN merged[i].FilePaths}
                             : i \in DOMAIN merged}
        IN /\ DOMAIN S = groups
           /\ \A g \in groups :
                /\ S[g].Count = Cardinality(touching(g))
                /\ S[g].TotalDuration =
                      SumSeq([i \in DOMAIN merged |->
                                 IF i \in touching(g) THEN Duration(merged[i]) ELSE 0])
           /\ \A i \in DOMAIN L :
                /\ L[i].Dir \in groups
                /\ L[i].Count = Cardinality(touching(L[i].Dir))
                /\ L[i].Avg = GoDiv(S[L[i].Dir].TotalDuration, Cardinality(touching(L[i].Dir)))

\* three PRs reported: one with two files under a/, one with a root file,
\* one without files; group a has fewer PRs than files under it
C10_Witness ==
    /\ Has("hotspots")
    /\ Len(merged) = 3
    /\ \E i \in DOMAIN merged : merged[i].FilePaths = <<>>
    /\ \E i \in DOMAIN merged :
          Cardinality({k \in DOMAIN merged[i].FilePaths :
                          topSegment(merged[i].FilePaths[k]) = <<"a">>}) = 2
    /\ RootFiles \in DOMAIN Get("hotspots").Stats
    /\ Get("hotspots").Stats[<<"a">>].Count = 1

\* the sum of the durations of the merged records with a path under group g
totalOf(g) ==
    SumSeq([i \in DOMAIN merged |-> IF i \in touching(g) THEN Duration(merged[i]) ELSE 0])

\* the mean duration of group g is strictly greater than that of group h
meanGreater(g, h) ==
    totalOf(g) * Cardinality(touching(h)) > totalOf(h) * Cardinality(touching(g))

\* C11: the hotspot report has at most 5 lines, each about another group, in
\* non-increasing order of the groups' mean durations, and no group left out
\* of the report has a mean strictly greater than a group in it; with five
\* groups or fewer every group is reported.
C11_TopFiveByMean ==
    Has("hotspots") =>
        LET L == Get("hotspots").Lines
            groups == DOMAIN Get("hotspots").Stats
            shown == {L[i].Dir : i \in DOMAIN L}
        IN /\ Len(L) <= 5
           /\ Len(L) = Min(5, Cardinality(groups))
           /\ shown \subseteq groups
           /\ Cardinality(shown) = Len(L)
           /\ \A i \in 1..(Len(L) - 1) : ~meanGreater(L[i + 1].Dir, L[i].Dir)
           /\ \A g \in groups \ shown : \A h \in shown : ~meanGreater(g, h)

\* six groups with three different means: five are reported, the first
\* slower than the last, and the group left out is faster than the first
C11_Witness ==
    /\ Has("hotspots")
    /\ Cardinality(DOMAIN Get("hotspots").Stats) = 6
    /\ Len(Get("hotspots").Lines) = 5
    /\ meanGreater(Get("hotspots").Lines[1].Dir, Get("hotspots").Lines[5].Dir)
    /\ \E g \in DOMAIN Get("hotspots").Stats :
          /\ \A i \in 1..5 : Get("hotspots").Lines[i].Dir # g
          /\ meanGreater(Get("hotspots").Lines[1].Dir, g)

\* C12: the slow decile of a sample of n >= 1 records has exactly
\* max(1, floor(n/10)) records (1 for n = 10, 10 for n = 100), all of them
\* different records of the sample, and each is at least as slow as every
\* record left outside it; the author lines count the records of the decile.
C12_SlowDecile ==
    Has("longtail") =>
        LET n == Len(merged)
            S == Get("longtail").Slowest
            L == Get("longtail").Lines
            rest == Range(merged) \ Range(S)
        IN /\ n >= 1
           /\ Len(S) = Max(1, n \div 10)
           /\ n = 10 => Len(S) = 1
           /\ n = 100 => Len(S) = 10
           /\ Range(S) \subseteq Range(merged)
           /\ Cardinality(Range(S)) = Len(S)
           /\ \A r \in Range(S) : \A o \in rest : Duration(r) >= Duration(o)
           /\ \A i \in DOMAIN L :
                 L[i].Count = Cardinality({r \in Range(S) : r.Author = L[i].Author})

\* a sample of 100 records, not given slowest first, whose decile has 10
\* records of several authors and ends inside a run of equal durations
C12_Witness ==
    /\ Has("longtail")
    /\ Len(merged) = 100
    /\ Len(Get("longtail").Slowest) = 10
    /\ Len(Get("longtail").Lines) >= 2
    /\ Duration(merged[1]) < Duration(merged[2])
    /\ \E o \in Range(merged) \ Range(Get("longtail").Slowest) :
          Duration(o) = Duration(Get("longtail").Slowest[10])

\* the chronological numbers of the months the merged records were merged in
mergeMonths == {chronOf(pr) : pr \in Range(merged)}

\* the k-th latest merge month (k = 1 is the latest)
latestMonth(k) ==
    CHOOSE c \in mergeMonths : Cardinality({d \in mergeMonths : d > c}) = k - 1

\* sum and number of the durations of the records merged in month c
monthTotal(c) ==
    SumSeq([i \in DOMAIN merged |-> IF chronOf(merged[i]) = c THEN Duration(merged[i]) ELSE 0])

monthCount(c) == Cardinality({i \in DOMAIN merged : chronOf(merged[i]) = c})

\* the label for the means first = tf/cf and last = tl/cl, with
\* diff = last - first and threshold = first/10, compared exactly
trendLabel(tf, cf, tl, cl) ==
    IF 10 * (tl * cf - tf * cl) > tf * cl THEN "Slowing Down"
    ELSE IF 10 * (tl * cf - tf * cl) < -(tf * cl) THEN "Speeding Up"
    ELSE "Stable"

\* C13: a forecast's trend label compares the means of the third-latest and
\* the latest merge month: with diff = last - first and threshold = first/10
\* it is "slowing down" when diff > threshold, "speeding up" when
\* diff < -threshold and "stable" otherwise, the two bounds included in
\* "stable"; the means 48h, 24h, 12h give "speeding up".
C13_ForecastTrend ==
    (Has("forecast") /\ ~Get("forecast").Insufficient) =>
        LET f == Get("forecast")
            first == latestMonth(3)
            last == latestMonth(1)
        IN /\ f.Trend = trendLabel(monthTotal(first), monthCount(first),
                                    monthTotal(last), monthCount(last))
           /\ \A k \in 1..3 :
                 f.Avgs[4 - k] * monthCount(latestMonth(k)) = monthTotal(latestMonth(k))
           /\ f.Avgs = <<48 * Hour, 24 * Hour, 12 * Hour>> => f.Trend = "Speeding Up"

\* four merge months, the last three with the means 48h, 24h and 12h
C13_Witness ==
    /\ Has("forecast")
    /\ ~Get("forecast").Insufficient
    /\ Cardinality(mergeMonths) = 4
    /\ Get("forecast").Avgs = <<48 * Hour, 24 * Hour, 12 * Hour>>
    /\ Get("forecast").Trend = "Speeding Up"

\* C14: the forecast reports insufficient data, with no point forecast and no
\* trend label, exactly when the merged sample has fewer than 3 distinct
\* merge months; with 3 or more it reports the three latest months, their
\* means, a point forecast (a third of the sum of the three means) and one
\* of the three trend labels.
C14_ForecastNeedsThreeMonths ==
    Has("forecast") =>
        LET f == Get("forecast") IN
        /\ f.Insufficient <=> Cardinality(mergeMonths) < 3
        /\ f.Insufficient => DOMAIN f = {"comp", "Insufficient"}
        /\ ~f.Insufficient =>
              /\ {"Forecast", "Trend"} \subseteq DOMAIN f
              /\ f.Trend \in {"Slowing Down", "Speeding Up", "Stable"}
              /\ 3 * f.Forecast <= f.Avgs[1] + f.Avgs[2] + f.Avgs[3]
              /\ 3 * f.Forecast > f.Avgs[1] + f.Avgs[2] + f.Avgs[3] - 3
              /\ \A k \in 1..3 :
                    \E pr \in Range(merged) :
                        /\ chronOf(pr) = latestMonth(k)
                        /\ f.Months[4 - k] = formatMonth(pr.MergedAt)

\* three or more records merged in only two months: no forecast
C14_Witness ==
    /\ Has("forecast")
    /\ Get("forecast").Insufficient
    /\ Len(merged) >= 3
    /\ Cardinality(mergeMonths) = 2

\* whether duration d lies in the b-th of the five buckets
\* < 1h, [1h, 1d), [1d, 1w), [1w, 30d), >= 30d
inBucket(d, b) ==
    CASE b = 1 -> d < Hour
      [] b = 2 -> Hour <= d /\ d < 24 * Hour
      [] b = 3 -> 24 * Hour <= d /\ d < 7 * 24 * Hour
      [] b = 4 -> 7 * 24 * Hour <= d /\ d < 30 * 24 * Hour
      [] b = 5 -> 30 * 24 * Hour <= d

\* C15: the histogram has five counts; the b-th is the number of merged
\* records whose duration lies in the b-th bucket, a duration of exactly 1h,
\* 1d, 1w or 30d counting in the bucket that starts there; every record is
\* in exactly one bucket and the counts sum to the size of the sample.
C15_HistogramBuckets ==
    Has("histogram") =>
        LET C == Get("histogram").Counts IN
        /\ DOMAIN C = 1..5
        /\ \A b \in 1..5 :
              C[b] = Cardinality({i \in DOMAIN merged : inBucket(Duration(merged[i]), b)})
        /\ \A i \in DOMAIN merged :
              Cardinality({b \in 1..5 : inBucket(Duration(merged[i]), b)}) = 1
        /\ C[1] + C[2] + C[3] + C[4] + C[5] = Len(merged)

\* three records of exactly 1h, 1w and 30d: one each in the second, fourth
\* and fifth bucket
C15_Witness ==
    /\ Has("histogram")
    /\ {Duration(merged[i]) : i \in DOMAIN merged} = {Hour, 7 * 24 * Hour, 30 * 24 * Hour}
    /\ Get("histogram").Counts = <<0, 1, 0, 1, 1>>

\* the open PRs created more than 48h before now that still request login
ghostedBy(login, now) ==
    {i \in DOMAIN openPRs :
        now - openPRs[i].CreatedAt > 48 * Hour /\ login \in Range(openPRs[i].Requested)}

\* everyone some open PR still requests
requestedOf(list) == UNION {Range(list[i].Requested) : i \in DOMAIN list}

\* C16: the ghost report has one line for each identity that some open PR
\* created strictly more than 48h ago still requests, with the number of such
\* PRs as its count, in non-increasing order of count; PRs of 48h or less and
\* identities no longer requested add nothing; "no ghosts" is reported
\* exactly when there is no such identity.
C16_GhostCounts ==
    Has("ghost") =>
        LET g == Get("ghost")
            ghosts == {r \in requestedOf(openPRs) : ghostedBy(r, g.Now) # {}}
        IN /\ {g.Lines[i].Name : i \in DOMAIN g.Lines} = ghosts
           /\ Len(g.Lines) = Cardinality(ghosts)
           /\ \A i \in DOMAIN g.Lines :
                 g.Lines[i].Count = Cardinality(ghostedBy(g.Lines[i].Name, g.Now))
           /\ \A i \in 1..(Len(g.Lines) - 1) : g.Lines[i].Count >= g.Lines[i + 1].Count
           /\ g.NoGhosts <=> ghosts = {}

\* bob blocks more PRs than alice; a PR of exactly 48h requests alice and is
\* not counted; alice has reviewed a PR of 72h that still waits for bob
C16_Witness ==
    /\ Has("ghost")
    /\ Len(Get("ghost").Lines) = 2
    /\ Get("ghost").Lines[1] = [Name |-> "bob", Count |-> 2]
    /\ Get("ghost").Lines[2] = [Name |-> "alice", Count |-> 1]
    /\ \E i \in DOMAIN openPRs :
          /\ Get("ghost").Now - openPRs[i].CreatedAt = 48 * Hour
          /\ "alice" \in Range(openPRs[i].Requested)
    /\ \E i \in DOMAIN openPRs :
          /\ Get("ghost").Now - openPRs[i].CreatedAt = 72 * Hour
          /\ "alice" \in Range(openPRs[i].Reviewers)
          /\ openPRs[i].Requested = <<"bob">>

reviewedOnes == {i \in DOMAIN merged : merged[i].FirstReviewAt # NilTime}

\* the wait of record i, from creation to first review, not below 0
waitOf(i) == Max(merged[i].FirstReviewAt[1] - merged[i].CreatedAt, 0)

\* the review time of record i, from first review to merge, not below 0
reviewTimeOf(i) == Max(merged[i].MergedAt - merged[i].FirstReviewAt[1], 0)

\* C18: the review report averages wait = max(firstReviewAt - createdAt, 0)
\* and review = max(mergedAt - firstReviewAt, 0) over exactly the records
\* that have a first review, records without one being left out of both
\* sums and of the count; when no record has a review it reports that and
\* divides nothing.
C18_PhaseMeans ==
    /\ pc # "panic"
    /\ Has("review") =>
          LET r == Get("review")
              c == Cardinality(reviewedOnes)
              sumWait == SumSeq([i \in DOMAIN merged |->
                                   IF i \in reviewedOnes THEN waitOf(i) ELSE 0])
              sumReview == SumSeq([i \in DOMAIN merged |->
                                     IF i \in reviewedOnes THEN reviewTimeOf(i) ELSE 0])
          IN /\ r.NoReviews <=> c = 0
             /\ r.Count = c
             /\ ~r.NoReviews =>
                   /\ r.AvgWait * c <= sumWait /\ sumWait < (r.AvgWait + 1) * c
                   /\ r.AvgReview * c <= sumReview /\ sumReview < (r.AvgReview + 1) * c

\* three records: one never reviewed, one reviewed before its creation, one
\* reviewed after its merge; the means are over the two reviewed ones
C18_Witness ==
    /\ Has("review")
    /\ Len(merged) = 3
    /\ Get("review").Count = 2
    /\ \E i \in reviewedOnes : merged[i].FirstReviewAt[1] < merged[i].CreatedAt
    /\ \E i \in reviewedOnes : merged[i].FirstReviewAt[1] > merged[i].MergedAt
    /\ Get("review").AvgWait = 3 * Hour
    /\ Get("review").AvgReview = 3 * Hour

\* the k-th smallest duration of the merged sample, by counting
kthDuration(k) ==
    CHOOSE v \in {Duration(merged[i]) : i \in DOMAIN merged} :
        /\ Cardinality({i \in DOMAIN merged : Duration(merged[i]) < v}) < k
        /\ Cardinality({i \in DOMAIN merged : Duration(merged[i]) <= v}) >= k

\* C19: the median of general statistics is the middle value of the sorted
\* durations for an odd count and the average of the two middle values for
\* an even count, in whatever order the records were given.
C19_Median ==
    Has("general") =>
        LET n == Len(merged)
            m == Get("general").Median
        IN /\ n >= 1
           /\ n % 2 = 1 => m = kthDuration((n + 1) \div 2)
           /\ n % 2 = 0 => 2 * m = kthDuration(n \div 2) + kthDuration((n \div 2) + 1)

\* an even number of records, more than 12, not given in ascending order,
\* whose two middle durations differ
C19_Witness ==
    /\ Has("general")
    /\ Len(merged) % 2 = 0
    /\ Len(merged) > 12
    /\ \E i \in 1..(Len(merged) - 1) : Duration(merged[i]) > Duration(merged[i + 1])
    /\ kthDuration(Len(merged) \div 2) < kthDuration((Len(merged) \div 2) + 1)
    /\ 2 * Get("general").Median = kthDuration(Len(merged) \div 2)
                                      + kthDuration((Len(merged) \div 2) + 1)

\* Pearson's r of (size, hours to merge) over the merged sample is
\* pearsonNum / sqrt(pearsonDenSq), and 0 when pearsonDenSq is 0
pearsonNum ==
    LET n == Len(merged)
        x == [i \in DOMAIN merged |-> merged[i].Size]
        y == [i \in DOMAIN merged |-> Duration(merged[i]) \div Hour]
    IN n * SumSeq([i \in DOMAIN merged |-> x[i] * y[i]]) - SumSeq(x) * SumSeq(y)

pearsonDenSq ==
    LET n == Len(merged)
        x == [i \in DOMAIN merged |-> merged[i].Size]
        y == [i \in DOMAIN merged |-> Duration(merged[i]) \div Hour]
    IN (n * SumSeq([i \in DOMAIN merged |-> x[i] * x[i]]) - SumSeq(x) * SumSeq(x))
       * (n * SumSeq([i \in DOMAIN merged |-> y[i] * y[i]]) - SumSeq(y) * SumSeq(y))

\* r > p/q, for p, q > 0
rAbove(p, q) ==
    /\ pearsonDenSq # 0
    /\ pearsonNum > 0
    /\ q * q * pearsonNum * pearsonNum > p * p * pearsonDenSq

\* C20: the verdict is strong for r > 0.5, moderate for 0.3 < r <= 0.5 and
\* weak/none for r <= 0.3: r of exactly 0.5 is moderate, r of exactly 0.3 is
\* weak, and every negative r, -1 included, is weak.
C20_CorrelationTiers ==
    Has("size") =>
        LET v == Get("size").Verdict IN
        /\ v \in {"strong", "moderate", "weak"}
        /\ v = "strong" <=> rAbove(1, 2)
        /\ v = "moderate" <=> (rAbove(3, 10) /\ ~rAbove(1, 2))
        /\ v = "weak" <=> ~rAbove(3, 10)
        /\ (pearsonNum > 0 /\ 4 * pearsonNum * pearsonNum = pearsonDenSq) => v = "moderate"
        /\ (pearsonNum > 0 /\ 100 * pearsonNum * pearsonNum = 9 * pearsonDenSq) => v = "weak"
        /\ pearsonNum < 0 => v = "weak"

\* three records with r exactly 0.5: the verdict is moderate
C20_Witness ==
    /\ Has("size")
    /\ pearsonNum > 0
    /\ 4 * pearsonNum * pearsonNum = pearsonDenSq
    /\ Get("size").Verdict = "moderate"

\* all sizes of list are equal or all its merge durations are equal
degenerate(list) ==
    \/ \A i, j \in DOMAIN list : list[i].Size = list[j].Size
    \/ \A i, j \in DOMAIN list : Duration(list[i]) = Duration(list[j])

\* the coefficient of size report r is exactly 0
coefficientIsZero(r) ==
    IF "Coefficient" \in DOMAIN r THEN r.Coefficient = fZero ELSE r.Numerator = 0

\* C21: whenever all sizes or all durations of the sample are identical (a
\* one-record sample included) the reported correlation coefficient is
\* exactly 0, never an indeterminate value.
C21_DegenerateIsZero ==
    \A i \in DOMAIN out :
        (out[i].comp = "size" /\ degenerate(merged)) => coefficientIsZero(out[i])

\* C22: a sample of fewer than 4 records comes back from filterOutliers
\* unchanged: the same records, the same count, the same order, in the array
\* it was handed.
C22_SmallSampleUnchanged ==
    (Has("filter") /\ Len(fetchedMerged) < 4) =>
        /\ merged = fetchedMerged
        /\ mergedArr = fetchedMerged
        /\ Get("filter").To = Len(fetchedMerged)

\* the filter has returned a sample of three records that were not in
\* ascending order of duration
C22_Witness ==
    /\ Has("filter")
    /\ Len(fetchedMerged) = 3
    /\ \E i \in 1..2 : Duration(fetchedMerged[i]) > Duration(fetchedMerged[i + 1])
    /\ merged = fetchedMerged

\* the eight aggregators of the merged-PR analysis
MergedComps == {"general", "review", "size", "hotspots", "longtail", "trends",
                "forecast", "histogram"}

\* report r of a merged-PR aggregator is what that aggregator prints for list
mergedReportOn(r, list) ==
    CASE r.comp = "general"   -> r = printGeneralStats(list)
      [] r.comp = "review"    -> r = printReviewStats(list)
      [] r.comp = "size"      -> r = printSizeAnalysis(list)
      [] r.comp = "hotspots"  -> r \in printHotspots(list)
      [] r.comp = "longtail"  -> r \in printLongTailAuthors(list)
      [] r.comp = "trends"    -> r = printTrends(list)
      [] r.comp = "forecast"  -> r = printForecast(list)
      [] r.comp = "histogram" -> r = printHistogram(list)

\* what has been printed so far respects the pipeline order
pipelineState ==
    /\ Cardinality({i \in DOMAIN out : out[i].comp = "filter"}) <= 1
    /\ Has("filter") =>
          /\ excludeOutliers
          /\ merged \in {Slice(r.arr, r.hdr) : r \in filterOutliers(fetchedMerged)}
    /\ \A i \in DOMAIN out :
          out[i].comp \in MergedComps =>
              /\ excludeOutliers => \E j \in 1..(i - 1) : out[j].comp = "filter"
              /\ mergedReportOn(out[i], merged)
    /\ Has("stale") => Get("stale") = printStaleAnalysis(openPRs, Get("stale").Now)
    /\ Has("ghost") => Get("ghost") \in printGhostAnalysis(openPRs, Get("ghost").Now)

\* one step of main respects the pipeline order
pipelineStep ==
    /\ pc = "filter" => (excludeOutliers /\ ~Has("filter"))
    /\ pc \notin {"fetchMerged", "filter"} => <<mergedArr, mergedPRs>>' = <<mergedArr, mergedPRs>>
    /\ pc # "fetchOpen" => openPRs' = openPRs

\* C23: when outlier exclusion is requested the filter runs once, before any
\* merged-PR aggregator; the list it returns is the list main holds from
\* then on and each of the eight aggregators reports on that list, never on
\* the list as fetched; the stale and ghost detectors report on the open list
\* as fetched, which no step after the fetch changes.
C23_PipelineOrder == []pipelineState /\ [][pipelineStep]_vars

\* a finished run in which the filter cut the fetched list, all eight
\* aggregators and both detectors reported, and the general statistics are
\* not those of the list as fetched
C23_Witness ==
    /\ pc = "done"
    /\ excludeOutliers
    /\ Has("filter")
    /\ Len(merged) < Len(fetchedMerged)
    /\ \A c \in MergedComps \cup {"stale", "ghost"} : Has(c)
    /\ Get("general") # printGeneralStats(fetchedMerged)

\* the call has fetched at most limit records, in at most limit requests
fetchState ==
    fetch.at # "idle" =>
        /\ fetch.honoured => Len(fetch.allPRs) <= fetch.limit
        /\ fetch.requests <= Max(fetch.limit, 0)
        /\ (fetch.at = "done" /\ ~Has("fetchError") /\ fetch.state = "MERGED")
              => fetchedMerged = fetch.allPRs

\* a step that issues a request does so below the limit, after a non-empty
\* page that had a next page (or first of all), and asks for
\* min(100, limit - fetched)
fetchStep ==
    (fetch.at # "idle" /\ fetch'.requests = fetch.requests + 1) =>
        /\ Len(fetch.allPRs) < fetch.limit
        /\ fetch.requests = 0 \/ (fetch.resp.nodes > 0 /\ fetch.resp.hasNextPage)
        /\ fetch'.toFetch = Min(100, fetch.limit - Len(fetch.allPRs))

\* C24: as long as no response holds more nodes than its request's `first`,
\* the accumulated list never exceeds limit; every request asks for
\* min(100, limit - fetched) and is issued only below the limit and only
\* after a non-empty page with hasNextPage true; the loop issues at most
\* limit requests.
C24_FetchAtMostLimit == []fetchState /\ [][fetchStep]_vars

\* a call with a limit above 100 that returned exactly limit records after
\* two or more requests, the first for 100 and the last for the remainder
C24_Witness ==
    /\ fetch.at = "done"
    /\ fetch.limit > 100
    /\ fetch.honoured
    /\ fetch.requests >= 2
    /\ fetch.toFetch = fetch.limit - 100
    /\ Len(fetchedMerged) = fetch.limit

\* C25: the ranked lists are a function of the input: whatever order the
\* maps are ranged over, a run on the same merged and open samples prints the
\* same hotspot lines, the same long-tail author lines and the same ghost
\* lines in the same order as this run did.
C25_RankedOutputDeterministic ==
    /\ Has("hotspots") =>
          \A r \in printHotspots(merged) : r.Lines = Get("hotspots").Lines
    /\ Has("longtail") =>
          \A r \in printLongTailAuthors(merged) : r.Lines = Get("longtail").Lines
    /\ Has("ghost") =>
          \A r \in printGhostAnalysis(openPRs, Get("ghost").Now) :
              r.Lines = Get("ghost").Lines

\* C26: the months the forecast is based on are the last three lines of the
\* monthly trends of the same sample, in the same ascending order and with
\* the same means, and the point forecast is the sum of those three means
\* divided by 3 (cut to a whole duration unit); the forecast reports
\* insufficient data exactly when the trends have fewer than three lines.
C26_TrendsFeedForecast ==
    (Has("trends") /\ Has("forecast")) =>
        LET t == Get("trends").Lines
            f == Get("forecast")
            n == Len(t)
        IN /\ \A i \in 1..(n - 1) : lineChron(t[i]) < lineChron(t[i + 1])
           /\ f.Insufficient <=> n < 3
           /\ ~f.Insufficient =>
                 /\ \A k \in 1..3 : /\ f.Months[k] = t[n - 3 + k].Month
                                     /\ f.Avgs[k] = t[n - 3 + k].Avg
                 /\ 3 * f.Forecast <= t[n - 2].Avg + t[n - 1].Avg + t[n].Avg
                 /\ 3 * f.Forecast > t[n - 2].Avg + t[n - 1].Avg + t[n].Avg - 3

\* a sample of four merge months fetched latest month first, with different
\* means in its last three months
C26_Witness ==
    /\ Has("trends")
    /\ Has("forecast")
    /\ Len(Get("trends").Lines) = 4
    /\ ~Get("forecast").Insufficient
    /\ chronOf(merged[1]) > chronOf(merged[2])
    /\ Get("forecast").Avgs[1] > Get("forecast").Avgs[2]
    /\ Get("forecast").Avgs[2] > Get("forecast").Avgs[3]

\* the fetch of the given state failed and main printed the error
fetchFailed(state) ==
    \E i \in DOMAIN out : out[i] = [comp |-> "fetchError", state |-> state]

\* the reports of the analyses of main, and the line of the filter
AnalysisComps == MergedComps \cup {"filter", "stale", "ghost"}

\* C27: when the merged fetch fails, main stops with exit status 1 having
\* printed the error and no analysis.  When the open fetch fails, main does
\* not exit: the open list is empty from then on, neither the stale nor the
\* ghost detector is called or has printed, a run that ends normally with
\* merged PRs has printed all eight merged-PR analyses, and a run without
\* merged PRs ends with the "No PRs found." line.
C27_FetchErrors ==
    /\ fetchFailed("MERGED") =>
          /\ pc = "exit1"
          /\ out = <<[comp |-> "fetchError", state |-> "MERGED"]>>
    /\ pc = "exit1" => \A i \in DOMAIN out : out[i].comp \notin AnalysisComps
    /\ fetchFailed("OPEN") =>
          /\ openPRs = <<>>
          /\ pc \notin {"exit1", "stale", "ghost"}
          /\ ~Has("stale")
          /\ ~Has("ghost")
          /\ (pc = "done" /\ Len(fetchedMerged) > 0) =>
                \A c \in MergedComps : Has(c)
          /\ (pc = "done" /\ Len(fetchedMerged) = 0) =>
                out = <<[comp |-> "fetchError", state |-> "OPEN"], [comp |-> "noPRs"]>>

\* a finished run whose open fetch failed after a merged fetch of two PRs
C27_Witness ==
    /\ fetchFailed("OPEN")
    /\ pc = "done"
    /\ Len(fetchedMerged) >= 2
    /\ \A c \in MergedComps : Has(c)
    /\ out[1].comp = "fetchError"

====
